---- MODULE Spec2Model ----
(***************************************************************************)
(* Model of the SF parking occupancy time visualizer: the statistics       *)
(* reducers (src/lib/statistics.js), the time filters and bucketing        *)
(* (src/lib/time-utils.js), the series pipeline and the map value          *)
(* computation (src/main.js) and the handlers that drive them.             *)
(*                                                                         *)
(* Numbers are exact rationals <<n, d>> (d > 0, lowest terms); floating    *)
(* point rounding is not modelled.  A timestamp is an instant, counted in  *)
(* minutes from 2024-01-01T00:00Z; the runtime's local calendar is that    *)
(* instant shifted by tzOffset minutes.                                    *)
(***************************************************************************)
EXTENDS Integers, Sequences, FiniteSets, TLC

VARIABLES
    values,     \* statistics.js: the array handed to a reducer (Null for null)
    call,       \* statistics.js: the call made last, [fn, p, type]
    result,     \* statistics.js: how that call completed, [threw, value]
    tz,         \* the runtime's offset from UTC in minutes (local = UTC + tz)
    state,      \* main.js: the application state object
    chart,      \* the series last handed to chart.update
    mapData,    \* the data last handed to map.setNeighborhoodData
    mapBlockface, \* the data last handed to map.setBlockfaceData
    mapView,    \* the arguments last handed to the map's selection, color and layer setters
    ctl,        \* controls.js: the panel's own state copy, its tab and its checkboxes
    saveTimer,  \* main.js: TRUE while the debounced saveSettings is pending
    stored,     \* localStorage: <<>> or <<the settings object saved last>>
    steps,      \* number of handler calls made so far
    input,      \* time-utils.js: the readings array handed to a function
    timeCall,   \* time-utils.js: the call made last, [fn, t1, t2, days, range, aggregation]
    timeResult, \* time-utils.js: what that call returned, [keys, buckets, kept]
    picker,     \* date-range-picker.js: the picker's state object, its Done button and its date limits
    notified,   \* the ranges the picker's onChange callback was called with
    pickerEvent, \* the picker's listener or method that ran last
    mapgl,      \* map.js: the variables createMap closes over and the layers of the Mapbox map
    mapCalls    \* the arguments of the latest calls of the map interface, per layer and for the data

statVars == <<values, call, result>>
appVars == <<tz, state, chart, mapData, mapBlockface, mapView, ctl, saveTimer, stored, steps>>
timeVars == <<input, timeCall, timeResult>>
pickerVars == <<picker, notified, pickerEvent>>
mapVars == <<mapgl, mapCalls>>
vars == <<values, call, result, tz, state, chart, mapData, mapBlockface, mapView, ctl,
          saveTimer, stored, steps, input, timeCall, timeResult, picker, notified, pickerEvent,
          mapgl, mapCalls>>

----------------------------------------------------------------------------
(* Exact arithmetic *)

RECURSIVE GCD(_, _)
GCD(a, b) == IF b = 0 THEN a ELSE GCD(b, a % b)

Abs(n) == IF n < 0 THEN -n ELSE n

\* n/d in lowest terms with a positive denominator (d # 0)
Q(n, d) ==
    LET s == IF d < 0 THEN -1 ELSE 1
        g == GCD(Abs(n), Abs(d))
    IN  <<(s * n) \div g, (s * d) \div g>>

Num(n) == <<n, 1>>
Zero == <<0, 1>>

QAdd(a, b) == Q(a[1] * b[2] + b[1] * a[2], a[2] * b[2])
QSub(a, b) == Q(a[1] * b[2] - b[1] * a[2], a[2] * b[2])
QMul(a, b) == Q(a[1] * b[1], a[2] * b[2])
QDiv(a, b) == Q(a[1] * b[2], a[2] * b[1])
QLt(a, b) == a[1] * b[2] < b[1] * a[2]
QLe(a, b) == a[1] * b[2] <= b[1] * a[2]
QFloor(a) == a[1] \div a[2]
QCeil(a) == -((-a[1]) \div a[2])

\* Math.round(x): the nearest integer, a half rounding towards +Infinity
MathRound(a) == (2 * a[1] + a[2]) \div (2 * a[2])

\* the largest r with r * r dividing n (n > 0); cap is an upper estimate of the
\* square root of n that the checker's 32-bit arithmetic can square
SquarePart(n) ==
    LET cap == IF n < 100 THEN 10
               ELSE IF n < 10000 THEN 100
               ELSE IF n < 1000000 THEN 1000
               ELSE IF n < 100000000 THEN 10000
               ELSE 46340
        S == {r \in 1..cap : r * r <= n /\ n % (r * r) = 0}
    IN  CHOOSE r \in S : \A t \in S : t <= r

\* Math.sqrt of a non-negative rational: <<n, d>> when it is rational, else the
\* surd <<n, d, k>> standing for (n/d) * sqrt(k), k > 1 squarefree
MathSqrt(a) ==
    LET s1 == SquarePart(a[1])
        s2 == SquarePart(a[2])
        k1 == a[1] \div (s1 * s1)
        k2 == a[2] \div (s2 * s2)
        q == Q(s1, s2 * k2)
    IN  IF a[1] = 0 THEN Zero
        ELSE IF k1 * k2 = 1 THEN q
        ELSE <<q[1], q[2], k1 * k2>>

\* values.reduce((acc, val) => acc + val, 0)
RECURSIVE SumSeq(_)
SumSeq(s) == IF Len(s) = 0 THEN Zero ELSE QAdd(s[1], SumSeq(Tail(s)))

\* [...values].sort((a, b) => a - b): a sorted copy
RECURSIVE Insert(_, _)
Insert(x, s) ==
    IF Len(s) = 0 THEN <<x>>
    ELSE IF QLt(x, s[1]) THEN <<x>> \o s
    ELSE <<s[1]>> \o Insert(x, Tail(s))

RECURSIVE SortNum(_)
SortNum(s) == IF Len(s) = 0 THEN <<>> ELSE Insert(s[Len(s)], SortNum(SubSeq(s, 1, Len(s) - 1)))

----------------------------------------------------------------------------
(* src/lib/statistics.js *)

\* a null / undefined array reference
Null == [i \in {0} |-> 0]

\* !values || values.length === 0
NoValues(v) == v = Null \/ Len(v) = 0

mean(v) == IF NoValues(v) THEN Zero ELSE QDiv(SumSeq(v), Num(Len(v)))

min(v) == IF NoValues(v) THEN Zero
          ELSE CHOOSE x \in {v[i] : i \in 1..Len(v)} : \A j \in 1..Len(v) : QLe(x, v[j])

max(v) == IF NoValues(v) THEN Zero
          ELSE CHOOSE x \in {v[i] : i \in 1..Len(v)} : \A j \in 1..Len(v) : QLe(v[j], x)

median(v) ==
    IF NoValues(v) THEN Zero
    ELSE LET sorted == SortNum(v)
             mid == Len(sorted) \div 2       \* 0-based index
         IN  IF Len(sorted) % 2 = 0
             THEN QDiv(QAdd(sorted[mid], sorted[mid + 1]), Num(2))
             ELSE sorted[mid + 1]

\* Math.round(val * 10) / 10
RoundTenth(x) == Q(MathRound(QMul(x, Num(10))), 10)

\* the keys of the counts Map, in insertion order
RECURSIVE CountKeys(_)
CountKeys(v) ==
    IF Len(v) = 0 THEN <<>>
    ELSE LET front == CountKeys(SubSeq(v, 1, Len(v) - 1))
             r == RoundTenth(v[Len(v)])
         IN  IF \E i \in 1..Len(front) : front[i] = r THEN front ELSE Append(front, r)

CountOf(v, r) == Cardinality({i \in 1..Len(v) : RoundTenth(v[i]) = r})

\* a loop over the Map's entries that lets a later key of equal count win
RECURSIVE ModeScanLatest(_, _, _, _)
ModeScanLatest(v, keys, maxCount, modeValue) ==
    IF Len(keys) = 0 THEN modeValue
    ELSE IF CountOf(v, keys[1]) >= maxCount
         THEN ModeScanLatest(v, Tail(keys), CountOf(v, keys[1]), keys[1])
         ELSE ModeScanLatest(v, Tail(keys), maxCount, modeValue)

\* the loop over the Map's entries: the first key whose count exceeds all before it
RECURSIVE ModeScan(_, _, _, _)
ModeScan(v, keys, maxCount, modeValue) ==
    IF Len(keys) = 0 THEN modeValue
    ELSE IF CountOf(v, keys[1]) > maxCount
         THEN ModeScan(v, Tail(keys), CountOf(v, keys[1]), keys[1])
         ELSE ModeScan(v, Tail(keys), maxCount, modeValue)

mode(v) == IF NoValues(v) THEN Zero ELSE ModeScan(v, CountKeys(v), 0, v[1])

Ret(x) == [threw |-> FALSE, value |-> x]
Threw == [threw |-> TRUE, value |-> <<>>]

\* percentile that takes the element below the index instead of interpolating
percentileWithoutInterpolation(v, p) ==
    IF NoValues(v) THEN Ret(Zero)
    ELSE IF p < 0 \/ p > 100 THEN Threw
    ELSE Ret(SortNum(v)[QFloor(QMul(Q(p, 100), Num(Len(v) - 1))) + 1])

\* percentile(values, p) as a call: it returns a value or throws
percentileCall(v, p) ==
    IF NoValues(v) THEN Ret(Zero)
    ELSE IF p < 0 \/ p > 100 THEN Threw
    ELSE LET sorted == SortNum(v)
             index == QMul(Q(p, 100), Num(Len(sorted) - 1))
             lower == QFloor(index)
             upper == QCeil(index)
             fraction == QSub(index, Num(lower))
         IN  IF p = 0 THEN Ret(sorted[1])
             ELSE IF p = 100 THEN Ret(sorted[Len(sorted)])
             ELSE IF lower = upper THEN Ret(sorted[lower + 1])
             ELSE Ret(QAdd(QMul(sorted[lower + 1], QSub(Num(1), fraction)),
                           QMul(sorted[upper + 1], fraction)))

percentile(v, p) == percentileCall(v, p).value

total(v) == IF NoValues(v) THEN Zero ELSE SumSeq(v)

standardDeviation(v) ==
    IF NoValues(v) THEN Zero
    ELSE IF Len(v) = 1 THEN Zero
    ELSE LET avg == mean(v)
             squaredDiffs == [i \in 1..Len(v) |-> QMul(QSub(v[i], avg), QSub(v[i], avg))]
         IN  MathSqrt(mean(squaredDiffs))

\* calculate whose default arm is total instead of mean
calculateWithTotalDefault(v, statisticType) ==
    CASE statisticType \in {"average", "mean"} -> Ret(mean(v))
      [] statisticType \in {"min", "minimum"} -> Ret(min(v))
      [] statisticType \in {"max", "maximum"} -> Ret(max(v))
      [] statisticType = "median" -> Ret(median(v))
      [] statisticType = "mode" -> Ret(mode(v))
      [] statisticType \in {"p25", "percentile25"} -> percentileCall(v, 25)
      [] statisticType \in {"p75", "percentile75"} -> percentileCall(v, 75)
      [] statisticType \in {"p90", "percentile90"} -> percentileCall(v, 90)
      [] statisticType \in {"stddev", "standardDeviation"} -> Ret(standardDeviation(v))
      [] statisticType \in {"total", "sum"} -> Ret(total(v))
      [] OTHER -> Ret(total(v))

\* calculate(values, statisticType) as a call: it returns a value or throws
calculateCall(v, statisticType) ==
    CASE statisticType \in {"average", "mean"} -> Ret(mean(v))
      [] statisticType \in {"min", "minimum"} -> Ret(min(v))
      [] statisticType \in {"max", "maximum"} -> Ret(max(v))
      [] statisticType = "median" -> Ret(median(v))
      [] statisticType = "mode" -> Ret(mode(v))
      [] statisticType \in {"p25", "percentile25"} -> percentileCall(v, 25)
      [] statisticType \in {"p75", "percentile75"} -> percentileCall(v, 75)
      [] statisticType \in {"p90", "percentile90"} -> percentileCall(v, 90)
      [] statisticType \in {"stddev", "standardDeviation"} -> Ret(standardDeviation(v))
      [] statisticType \in {"total", "sum"} -> Ret(total(v))
      [] OTHER -> Ret(mean(v))

calculate(v, statisticType) == calculateCall(v, statisticType).value

\* values.sort((a, b) => a - b): the sort applied to the argument array itself
SortedInPlace(v) == [sorted |-> SortNum(v), values |-> SortNum(v)]

\* const sorted = [...values].sort((a, b) => a - b): the array the statement
\* binds to sorted, and the argument array after the statement
SortedCopy(v) == [sorted |-> SortNum(v), values |-> v]

\* the argument array after median(values) has returned
ValuesAfterMedian(v) == IF NoValues(v) THEN v ELSE SortedCopy(v).values

\* the argument array after percentile(values, p) has returned or thrown
ValuesAfterPercentile(v, p) == IF NoValues(v) \/ p < 0 \/ p > 100 THEN v ELSE SortedCopy(v).values

\* the argument array after calculate(values, statisticType) has returned: mean,
\* min, max, mode, total and standardDeviation only read it
ValuesAfterCalculate(v, statisticType) ==
    CASE statisticType = "median" -> ValuesAfterMedian(v)
      [] statisticType \in {"p25", "percentile25"} -> ValuesAfterPercentile(v, 25)
      [] statisticType \in {"p75", "percentile75"} -> ValuesAfterPercentile(v, 75)
      [] statisticType \in {"p90", "percentile90"} -> ValuesAfterPercentile(v, 90)
      [] OTHER -> v

----------------------------------------------------------------------------
(* The Date object: an instant is a number of minutes from 2024-01-01T00:00Z,  *)
(* a Monday; a calendar day is a number of days from 2024-01-01.               *)

MinutesPerDay == 1440

\* first day of each month of 2024, as a day number
MonthStart == <<0, 31, 60, 91, 121, 152, 182, 213, 244, 274, 305, 335, 366>>

\* <<year, month, date>> of a day number (December 2023 .. December 2024)
YMD(day) ==
    IF day < 0 THEN <<2023, 12, day + 32>>
    ELSE LET m == CHOOSE i \in 1..12 : MonthStart[i] <= day /\ day < MonthStart[i + 1]
         IN  <<2024, m, day - MonthStart[m] + 1>>

\* 0 = Sunday .. 6 = Saturday
WeekdayOf(day) == (day + 1) % 7

UTCDayNo(t) == t \div MinutesPerDay
LocalDayNo(t) == (t + tz) \div MinutesPerDay

getUTCDay(t) == WeekdayOf(UTCDayNo(t))
getUTCHours(t) == (t % MinutesPerDay) \div 60
getDay(t) == WeekdayOf(LocalDayNo(t))
getHours(t) == ((t + tz) % MinutesPerDay) \div 60
getMinutes(t) == (t + tz) % 60

\* date.toISOString().split('T')[0]
ISODate(t) == YMD(UTCDayNo(t))

\* new Date('YYYY-MM-DD'): a date-only string is midnight UTC of that day
DateOnly(day) == day * MinutesPerDay

\* date.setHours(23, 59, 59, 999): the last instant of the local day of t; an
\* instant on a whole minute is <= it exactly when it is < the value given here
EndOfLocalDay(t) == (LocalDayNo(t) + 1) * MinutesPerDay - tz

----------------------------------------------------------------------------
(* src/lib/time-utils.js *)

isInRange(timestamp, range) ==
    /\ timestamp >= DateOnly(range.start)
    /\ timestamp < EndOfLocalDay(DateOnly(range.end))

getDayOfWeek(timestamp) == getDay(timestamp)

getHour(timestamp) == getHours(timestamp)

Includes(s, x) == \E i \in 1..Len(s) : s[i] = x

filterByDayOfWeek(readings, days) ==
    IF Len(days) = 0 \/ Len(days) = 7 THEN readings
    ELSE LET Keep(r) == Includes(days, getDayOfWeek(r.timestamp))
         IN  SelectSeq(readings, Keep)

\* a filter whose ranges end before their last hour
filterByHourRangeEndExclusive(readings, ranges) ==
    IF Len(ranges) = 0 THEN readings
    ELSE LET Keep(r) == \E i \in 1..Len(ranges) :
                            getHour(r.timestamp) >= ranges[i][1] /\ getHour(r.timestamp) < ranges[i][2]
         IN  SelectSeq(readings, Keep)

filterByHourRange(readings, ranges) ==
    IF Len(ranges) = 0 THEN readings
    ELSE LET Keep(r) == \E i \in 1..Len(ranges) :
                            getHour(r.timestamp) >= ranges[i][1] /\ getHour(r.timestamp) <= ranges[i][2]
         IN  SelectSeq(readings, Keep)

\* getBucketKey with the Sunday of a week keyed to the Monday after it
getBucketKeySundayForward(timestamp, aggregation) ==
    LET day == LocalDayNo(timestamp)
        monday == day - getDay(timestamp) + 1
    IN  CASE aggregation = "15min" ->
                YMD(day) \o <<getHours(timestamp), (getMinutes(timestamp) \div 15) * 15>>
          [] aggregation = "hourly" -> YMD(day) \o <<getHours(timestamp), 0>>
          [] aggregation = "weekly" -> YMD(monday)
          [] aggregation = "monthly" -> <<YMD(day)[1], YMD(day)[2], 1>>
          [] OTHER -> YMD(day)

\* the key string as its fields: <<Y, M, D>> for 'YYYY-MM-DD' and
\* <<Y, M, D, h, m>> for 'YYYY-MM-DDThh:mm' (every field is zero-padded)
getBucketKey(timestamp, aggregation) ==
    LET day == LocalDayNo(timestamp)
        wd == getDay(timestamp)
        monday == day - wd + (IF wd = 0 THEN -6 ELSE 1)
    IN  CASE aggregation = "15min" ->
                YMD(day) \o <<getHours(timestamp), (getMinutes(timestamp) \div 15) * 15>>
          [] aggregation = "hourly" -> YMD(day) \o <<getHours(timestamp), 0>>
          [] aggregation = "daily" -> YMD(day)
          [] aggregation = "weekly" -> YMD(monday)
          [] aggregation = "monthly" -> <<YMD(day)[1], YMD(day)[2], 1>>
          [] OTHER -> YMD(day)

\* a.localeCompare(b) < 0 on two keys
RECURSIVE KeyLt(_, _)
KeyLt(a, b) ==
    IF Len(b) = 0 THEN FALSE
    ELSE IF Len(a) = 0 THEN TRUE
    ELSE IF a[1] # b[1] THEN a[1] < b[1]
    ELSE KeyLt(Tail(a), Tail(b))

\* bucketize with buckets.set(key, [reading]) in place of the push: a bucket
\* holds only the reading that came last
RECURSIVE bucketizeKeepingLastReading(_, _)
bucketizeKeepingLastReading(readings, aggregation) ==
    IF Len(readings) = 0 THEN <<>>
    ELSE LET front == bucketizeKeepingLastReading(SubSeq(readings, 1, Len(readings) - 1), aggregation)
             reading == readings[Len(readings)]
             key == getBucketKey(reading.timestamp, aggregation)
         IN  IF \E i \in 1..Len(front) : front[i].key = key
             THEN [i \in 1..Len(front) |->
                      IF front[i].key = key THEN [key |-> key, readings |-> <<reading>>] ELSE front[i]]
             ELSE Append(front, [key |-> key, readings |-> <<reading>>])

\* the Map bucketize returns, as its entries [key, readings] in insertion order
RECURSIVE bucketize(_, _)
bucketize(readings, aggregation) ==
    IF Len(readings) = 0 THEN <<>>
    ELSE LET front == bucketize(SubSeq(readings, 1, Len(readings) - 1), aggregation)
             reading == readings[Len(readings)]
             key == getBucketKey(reading.timestamp, aggregation)
         IN  IF \E i \in 1..Len(front) : front[i].key = key
             THEN [i \in 1..Len(front) |->
                      IF front[i].key = key
                      THEN [key |-> key, readings |-> Append(front[i].readings, reading)]
                      ELSE front[i]]
             ELSE Append(front, [key |-> key, readings |-> <<reading>>])

\* current.setMonth(current.getMonth() + 1): the same local date and time of day
\* one month on; a date past the end of that month runs on into the month after
AddMonth(t) ==
    LET day == LocalDayNo(t)
        ymd == YMD(day)
        firstOfNext == IF ymd[1] = 2023 THEN 0 ELSE MonthStart[ymd[2] + 1]
    IN  t + (firstOfNext + ymd[3] - 1 - day) * MinutesPerDay

\* the increment with an unknown granularity stepping a week at a time
IncrementByWeekWhenUnknown(aggregation) ==
    CASE aggregation = "15min" -> 15
      [] aggregation = "hourly" -> 60
      [] aggregation = "daily" -> MinutesPerDay
      [] OTHER -> 7 * MinutesPerDay

\* the switch that advances current in generateBucketRange, for the cases that
\* add a fixed amount of time (days have 24 hours: no daylight saving shift)
Increment(aggregation) ==
    CASE aggregation = "15min" -> 15
      [] aggregation = "hourly" -> 60
      [] aggregation = "daily" -> MinutesPerDay
      [] aggregation = "weekly" -> 7 * MinutesPerDay
      [] OTHER -> MinutesPerDay

\* the values current takes in while (current <= end) under 'monthly'; end is
\* the instant after the last one let in
RECURSIVE MonthlyCurrents(_, _)
MonthlyCurrents(current, end) ==
    IF current >= end THEN <<>> ELSE <<current>> \o MonthlyCurrents(AddMonth(current), end)

\* the values current takes in the loop, in order
Currents(start, end, aggregation) ==
    IF aggregation = "monthly" THEN MonthlyCurrents(start, end)
    ELSE [k \in 1..(IF start >= end THEN 0 ELSE (end - 1 - start) \div Increment(aggregation) + 1) |->
            start + (k - 1) * Increment(aggregation)]

\* current.toISOString() names the instant current, which getBucketKey parses
\* back; a key is pushed when keys does not include it yet
generateBucketRange(range, aggregation) ==
    LET currents == Currents(DateOnly(range.start), EndOfLocalDay(DateOnly(range.end)), aggregation)
        key == <<>> \o [k \in 1..Len(currents) |-> getBucketKey(currents[k], aggregation)]
        pushed == {k \in 1..Len(currents) : \A j \in 1..(k - 1) : key[j] # key[k]}
        place == [k \in pushed |-> Cardinality({j \in pushed : j <= k})]
    IN  [i \in 1..Cardinality(pushed) |-> key[CHOOSE k \in pushed : place[k] = i]]

TIME_PATTERNS ==
    [all |-> [type |-> "all", ranges |-> <<<<0, 23>>>>],
     morning |-> [type |-> "morning", ranges |-> <<<<6, 11>>>>],
     afternoon |-> [type |-> "afternoon", ranges |-> <<<<12, 17>>>>],
     evening |-> [type |-> "evening", ranges |-> <<<<18, 23>>>>],
     night |-> [type |-> "night", ranges |-> <<<<0, 5>>>>],
     peak |-> [type |-> "peak", ranges |-> <<<<7, 9>>, <<16, 19>>>>],
     offpeak |-> [type |-> "offpeak", ranges |-> <<<<0, 6>>, <<10, 15>>, <<20, 23>>>>],
     business |-> [type |-> "business", ranges |-> <<<<9, 17>>>>]]

DATE_PATTERNS ==
    [all |-> [type |-> "all", days |-> <<0, 1, 2, 3, 4, 5, 6>>],
     weekdays |-> [type |-> "weekdays", days |-> <<1, 2, 3, 4, 5>>],
     weekends |-> [type |-> "weekends", days |-> <<0, 6>>]]

getAggregationTypes == {"15min", "hourly", "daily", "weekly", "monthly"}

\* the ids of getStatisticTypes() (statistics.js), the statistics the panel offers
getStatisticTypes == {"actual", "average", "median", "min", "max", "mode", "p25", "p75", "total"}

----------------------------------------------------------------------------
(* The loaded datasets (data/*.json).  A reading carries occupied, capacity  *)
(* and transactions, as the generator writes them; capacity may vary from    *)
(* reading to reading (specs/main/data-model.md).                            *)

At(day, hour, minute) == day * MinutesPerDay + hour * 60 + minute

Reading(region, t, occupied, capacity, transactions) ==
    [timestamp |-> t, regionId |-> region, occupied |-> occupied,
     capacity |-> capacity, transactions |-> transactions]

\* number of readings of the file that are loaded
NumReadings == 7

AllReadings ==
    << Reading("mission", At(0, 8, 0), 5, 10, 3),      \* Mon 2024-01-01
       Reading("soma", At(0, 8, 0), 2, 8, 1),
       Reading("mission", At(0, 8, 15), 2, 20, 4),
       Reading("mission", At(5, 20, 0), 9, 10, 2),     \* Sat 2024-01-06
       Reading("soma", At(6, 2, 0), 4, 8, 5),          \* Sun 2024-01-07
       Reading("mission", At(7, 7, 30), 3, 10, 0),     \* Mon 2024-01-08
       Reading("soma", At(31, 12, 0), 8, 8, 6),        \* Thu 2024-02-01
       Reading("mission", At(31, 12, 45), 1, 10, 9),
       Reading("soma", At(32, 23, 0), 6, 8, 2) >>

Regions == << [id |-> "mission", name |-> "Mission"], [id |-> "soma", name |-> "SoMa"] >>

LoadedReadings ==
    SubSeq(AllReadings, 1, IF NumReadings < Len(AllReadings) THEN NumReadings ELSE Len(AllReadings))

\* state.data and state.transactionData
ParkingData == [regions |-> Regions, readings |-> LoadedReadings]
TransactionData == [regions |-> Regions, readings |-> LoadedReadings]

BlockfaceReading(bf, t, occupied, capacity, transactions) ==
    [timestamp |-> t, blockfaceId |-> bf, occupied |-> occupied,
     capacity |-> capacity, transactions |-> transactions]

\* state.blockfaceData: the featured blockfaces and their readings
BlockfaceData ==
    [blockfaces |-> << [id |-> "seg1", segmentId |-> "seg1", name |-> "Valencia St", baseOccupancy |-> Num(40)],
                       [id |-> "seg2", segmentId |-> "seg2", name |-> "Folsom St", baseOccupancy |-> Num(65)] >>,
     readings |-> << BlockfaceReading("seg1", At(0, 8, 0), 3, 4, 2),
                     BlockfaceReading("seg1", At(0, 9, 0), 1, 4, 0),
                     BlockfaceReading("seg1", At(5, 20, 0), 2, 4, 1),
                     BlockfaceReading("seg2", At(31, 12, 0), 1, 2, 3) >>]

DAY_OF_WEEK_OPTIONS == <<"0", "1", "2", "3", "4", "5", "6">>

\* the weekday number a selected value stands for (a number n is written "n")
DayNum(id) == (CHOOSE i \in 1..7 : DAY_OF_WEEK_OPTIONS[i] = id) - 1

TIME_OF_DAY_OPTIONS ==
    << [id |-> "morning", start |-> 6, end |-> 12],
       [id |-> "afternoon", start |-> 12, end |-> 18],
       [id |-> "evening", start |-> 18, end |-> 24],
       [id |-> "night", start |-> 0, end |-> 6] >>

----------------------------------------------------------------------------
(* src/main.js: the data pipeline *)

NoCurrentData == [present |-> FALSE, occupancy |-> Zero, transactions |-> Zero]

SeriesDimension(type, selected) ==
    [type |-> type, selected |-> selected, segmentId |-> "", currentData |-> NoCurrentData]

\* getActiveData(layerType): the dataset and the id of its dataset type
getActiveData(st, layerType) ==
    LET datasetId == IF layerType = "blockface" THEN st.blockfaceDataset ELSE st.aoiDataset
    IN  IF datasetId = "transactions"
        THEN [data |-> TransactionData, blockfaceData |-> BlockfaceData, datasetType |-> "transactions"]
        ELSE [data |-> ParkingData, blockfaceData |-> BlockfaceData, datasetType |-> "occupancy"]

\* (r.occupied / r.capacity) * 100
Percent(r) == QMul(Q(r.occupied, r.capacity), Num(100))

Transactions(r) == Num(r.transactions)

\* dataPoints.sort((a, b) => a.timestamp.localeCompare(b.timestamp))
RECURSIVE InsertPoint(_, _)
InsertPoint(pt, s) ==
    IF Len(s) = 0 THEN <<pt>>
    ELSE IF KeyLt(pt.x, s[1].x) THEN <<pt>> \o s
    ELSE <<s[1]>> \o InsertPoint(pt, Tail(s))

RECURSIVE SortPoints(_)
SortPoints(s) ==
    IF Len(s) = 0 THEN <<>> ELSE InsertPoint(s[Len(s)], SortPoints(SubSeq(s, 1, Len(s) - 1)))

PointValues(points) == [i \in 1..Len(points) |-> points[i].value]

\* a reference value that is the sum of the points, not their mean
ReferenceValueAsTotal(points) ==
    IF Len(points) > 0 THEN SumSeq(PointValues(points)) ELSE Zero

\* dataPoints.length > 0 ? dataPoints.reduce((sum, p) => sum + p.value, 0) / dataPoints.length : 0
ReferenceValue(points) ==
    IF Len(points) > 0 THEN QDiv(SumSeq(PointValues(points)), Num(Len(points))) ELSE Zero

\* the three filters without the skips for the dayOfWeek and timeOfDay dimensions
PipelineReadingsWithoutSkip(st, data) ==
    LET InRange(r) == isInRange(r.timestamp, st.timeRange)
        r1 == SelectSeq(data.readings, InRange)
        r2 == IF st.datePattern.type # "all"
              THEN filterByDayOfWeek(r1, st.datePattern.days) ELSE r1
    IN  IF st.timePattern.type # "all"
        THEN filterByHourRange(r2, st.timePattern.ranges) ELSE r2

\* the readings that reach the series construction of runDataPipeline
PipelineReadings(st, data) ==
    LET InRange(r) == isInRange(r.timestamp, st.timeRange)
        r1 == SelectSeq(data.readings, InRange)
        r2 == IF st.datePattern.type # "all" /\ st.seriesDimension.type # "dayOfWeek"
              THEN filterByDayOfWeek(r1, st.datePattern.days) ELSE r1
    IN  IF st.timePattern.type # "all" /\ st.seriesDimension.type # "timeOfDay"
        THEN filterByHourRange(r2, st.timePattern.ranges) ELSE r2

\* the weighted-or-statistic value of one bucket (sf-aggregate and combined series)
WeightedBucketValue(st, bucketReadings, isTransactions) ==
    LET totalOccupied == SumSeq([i \in 1..Len(bucketReadings) |-> Num(bucketReadings[i].occupied)])
        totalCapacity == SumSeq([i \in 1..Len(bucketReadings) |-> Num(bucketReadings[i].capacity)])
        weightedRate == IF QLt(Zero, totalCapacity)
                        THEN QMul(QDiv(totalOccupied, totalCapacity), Num(100)) ELSE Zero
    IN  IF isTransactions
        THEN calculate([i \in 1..Len(bucketReadings) |-> Transactions(bucketReadings[i])], st.statistic)
        ELSE IF st.statistic # "average"
        THEN calculate([i \in 1..Len(bucketReadings) |-> Percent(bucketReadings[i])], st.statistic)
        ELSE weightedRate

\* a bucket value of an individual AOI that weights the average by capacity
CapacityWeightedBucketValue(st, bucketReadings, isTransactions) ==
    IF isTransactions
    THEN calculate([i \in 1..Len(bucketReadings) |-> Transactions(bucketReadings[i])], st.statistic)
    ELSE IF st.statistic = "average"
    THEN QMul(QDiv(SumSeq([i \in 1..Len(bucketReadings) |-> Num(bucketReadings[i].occupied)]),
                   SumSeq([i \in 1..Len(bucketReadings) |-> Num(bucketReadings[i].capacity)])), Num(100))
    ELSE calculate([i \in 1..Len(bucketReadings) |-> Percent(bucketReadings[i])], st.statistic)

\* the value of one bucket of an individual AOI
StatBucketValue(st, bucketReadings, isTransactions) ==
    IF isTransactions
    THEN calculate([i \in 1..Len(bucketReadings) |-> Transactions(bucketReadings[i])], st.statistic)
    ELSE calculate([i \in 1..Len(bucketReadings) |-> Percent(bucketReadings[i])], st.statistic)

MakeSeries(id, points) == [id |-> id, data |-> points, referenceValue |-> ReferenceValue(points)]

\* one pass of the loop of processAOISeries, for a selected id that yields a series
AOISeries(st, readings, aoiId, isTransactions) ==
    LET IsMine(r) == r.regionId = aoiId
        aoiReadings == IF aoiId = "sf-aggregate" THEN readings ELSE SelectSeq(readings, IsMine)
        buckets == bucketize(aoiReadings, st.aggregation)
        dataPoints == [i \in 1..Len(buckets) |->
            [x |-> buckets[i].key,
             value |-> IF aoiId = "sf-aggregate"
                       THEN WeightedBucketValue(st, buckets[i].readings, isTransactions)
                       ELSE StatBucketValue(st, buckets[i].readings, isTransactions)]]
    IN  MakeSeries(aoiId, SortPoints(dataPoints))

createCombinedSeries(st, readings, selectedAOIs, isTransactions) ==
    LET IsSelected(r) == Includes(selectedAOIs, r.regionId)
        filteredReadings == SelectSeq(readings, IsSelected)
        buckets == bucketize(filteredReadings, st.aggregation)
        dataPoints == [i \in 1..Len(buckets) |->
            [x |-> buckets[i].key,
             value |-> WeightedBucketValue(st, buckets[i].readings, isTransactions)]]
    IN  MakeSeries("combined", SortPoints(dataPoints))

\* processAOISeries with the combined view also taken beside sf-aggregate
processAOISeriesCombiningBesideAggregate(st, readings, selectedAOIs, data, datasetType) ==
    LET isTransactions == datasetType = "transactions"
        Known(aoiId) == aoiId = "sf-aggregate" \/ \E i \in 1..Len(data.regions) : data.regions[i].id = aoiId
        kept == SelectSeq(selectedAOIs, Known)
    IN  IF st.combinedView /\ Len(selectedAOIs) > 1
        THEN <<createCombinedSeries(st, readings, selectedAOIs, isTransactions)>>
        ELSE [i \in 1..Len(kept) |-> AOISeries(st, readings, kept[i], isTransactions)]

processAOISeries(st, readings, selectedAOIs, data, datasetType) ==
    LET isTransactions == datasetType = "transactions"
        Known(aoiId) == aoiId = "sf-aggregate" \/ \E i \in 1..Len(data.regions) : data.regions[i].id = aoiId
        kept == SelectSeq(selectedAOIs, Known)
    IN  IF st.combinedView /\ Len(selectedAOIs) > 1 /\ ~Includes(selectedAOIs, "sf-aggregate")
        THEN <<createCombinedSeries(st, readings, selectedAOIs, isTransactions)>>
        ELSE [i \in 1..Len(kept) |-> AOISeries(st, readings, kept[i], isTransactions)]

\* values.reduce((a, b) => a + b, 0) / values.length
PlainAverage(v) == QDiv(SumSeq(v), Num(Len(v)))

ReadingValues(rs, isTransactions) ==
    [i \in 1..Len(rs) |-> IF isTransactions THEN Transactions(rs[i]) ELSE Percent(rs[i])]

\* the hours 0..23 that have a reading, ascending, each with its value
HourPoints(st, rs, isTransactions, plain) ==
    LET HasReading(h) == \E i \in 1..Len(rs) : getUTCHours(rs[i].timestamp) = h
        hours == SelectSeq([h \in 1..24 |-> h - 1], HasReading)
    IN  [k \in 1..Len(hours) |->
            LET AtHour(r) == getUTCHours(r.timestamp) = hours[k]
                v == ReadingValues(SelectSeq(rs, AtHour), isTransactions)
            IN  [x |-> hours[k], value |-> IF plain THEN PlainAverage(v) ELSE calculate(v, st.statistic)]]

\* the distinct UTC dates of the readings, in order of first appearance
RECURSIVE DateKeys(_)
DateKeys(rs) ==
    IF Len(rs) = 0 THEN <<>>
    ELSE LET front == DateKeys(SubSeq(rs, 1, Len(rs) - 1))
             k == ISODate(rs[Len(rs)].timestamp)
         IN  IF Includes(front, k) THEN front ELSE Append(front, k)

DaySeries(dayNum, dateKey, points) ==
    [id |-> "day", dayNum |-> dayNum, dateKey |-> dateKey, data |-> points,
     referenceValue |-> ReferenceValue(points)]

\* the series one selected day contributes
DayOfWeekSeriesFor(st, readings, dayNum, isTransactions) ==
    LET OnDay(r) == getUTCDay(r.timestamp) = dayNum
        dayReadings == SelectSeq(readings, OnDay)
        dates == DateKeys(dayReadings)
    IN  IF Len(dayReadings) = 0 THEN <<>>
        ELSE IF st.statistic = "actual"
        THEN [k \in 1..Len(dates) |->
                LET OnDate(r) == ISODate(r.timestamp) = dates[k]
                IN  DaySeries(dayNum, dates[k],
                              HourPoints(st, SelectSeq(dayReadings, OnDate), isTransactions, TRUE))]
        ELSE << DaySeries(dayNum, <<>>, HourPoints(st, dayReadings, isTransactions, FALSE)) >>

RECURSIVE processDayOfWeekSeries(_, _, _, _)
processDayOfWeekSeries(st, readings, selectedDays, datasetType) ==
    IF Len(selectedDays) = 0 THEN <<>>
    ELSE LET d == selectedDays[1]
             rest == processDayOfWeekSeries(st, readings, Tail(selectedDays), datasetType)
         IN  IF ~Includes(DAY_OF_WEEK_OPTIONS, d) THEN rest
             ELSE DayOfWeekSeriesFor(st, readings, DayNum(d), datasetType = "transactions") \o rest

TimeSeries(periodId, points) ==
    [id |-> "time", periodId |-> periodId, data |-> points, referenceValue |-> ReferenceValue(points)]

\* the series of a period whose hour range is closed at its end
TimeOfDaySeriesForClosedRange(st, readings, periodOption, isTransactions) ==
    LET InPeriod(r) == /\ getUTCHours(r.timestamp) >= periodOption.start
                       /\ getUTCHours(r.timestamp) <= periodOption.end
        periodReadings == SelectSeq(readings, InPeriod)
        dataPoints == [k \in 1..7 |->
            LET OnDay(r) == getUTCDay(r.timestamp) = k - 1
                v == ReadingValues(SelectSeq(periodReadings, OnDay), isTransactions)
            IN  [x |-> k - 1,
                 value |-> IF Len(v) > 0
                           THEN (IF st.statistic = "actual" THEN PlainAverage(v) ELSE calculate(v, st.statistic))
                           ELSE Zero]]
    IN  IF Len(periodReadings) = 0 THEN <<>> ELSE << TimeSeries(periodOption.id, dataPoints) >>

\* the series one selected period contributes
TimeOfDaySeriesFor(st, readings, periodOption, isTransactions) ==
    LET InPeriod(r) ==
            LET hour == getUTCHours(r.timestamp)
            IN  IF periodOption.start < periodOption.end
                THEN hour >= periodOption.start /\ hour < periodOption.end
                ELSE hour >= periodOption.start \/ hour < periodOption.end
        periodReadings == SelectSeq(readings, InPeriod)
        dataPoints == [k \in 1..7 |->
            LET OnDay(r) == getUTCDay(r.timestamp) = k - 1
                v == ReadingValues(SelectSeq(periodReadings, OnDay), isTransactions)
            IN  [x |-> k - 1,
                 value |-> IF Len(v) > 0
                           THEN (IF st.statistic = "actual" THEN PlainAverage(v) ELSE calculate(v, st.statistic))
                           ELSE Zero]]
    IN  IF Len(periodReadings) = 0 THEN <<>> ELSE << TimeSeries(periodOption.id, dataPoints) >>

RECURSIVE processTimeOfDaySeries(_, _, _, _)
processTimeOfDaySeries(st, readings, selectedPeriods, datasetType) ==
    IF Len(selectedPeriods) = 0 THEN <<>>
    ELSE LET p == selectedPeriods[1]
             rest == processTimeOfDaySeries(st, readings, Tail(selectedPeriods), datasetType)
             found == {i \in 1..Len(TIME_OF_DAY_OPTIONS) : TIME_OF_DAY_OPTIONS[i].id = p}
         IN  IF found = {} THEN rest
             ELSE TimeOfDaySeriesFor(st, readings, TIME_OF_DAY_OPTIONS[CHOOSE i \in found : TRUE],
                                     datasetType = "transactions") \o rest

\* blockfaces.find(bf => bf.id === id) || blockfaces.find(bf => bf.segmentId === id)
FindBlockface(blockfaces, blockfaceId) ==
    LET byId == {i \in 1..Len(blockfaces) : blockfaces[i].id = blockfaceId}
        bySegment == {i \in 1..Len(blockfaces) : blockfaces[i].segmentId = blockfaceId}
        First(S) == CHOOSE i \in S : \A j \in S : i <= j
    IN  IF byId # {} THEN <<blockfaces[First(byId)]>>
        ELSE IF bySegment # {} THEN <<blockfaces[First(bySegment)]>>
        ELSE <<>>

\* the filters of processBlockfaceSeries without the date pattern
BlockfaceSeriesReadingsWithoutDatePattern(st, blockfaceData, blockfaceInfo) ==
    LET IsMine(r) == r.blockfaceId = blockfaceInfo.id
        InRange(r) == isInRange(r.timestamp, st.timeRange)
        r1 == SelectSeq(SelectSeq(blockfaceData.readings, IsMine), InRange)
    IN  IF st.timePattern.type # "all" THEN filterByHourRange(r1, st.timePattern.ranges) ELSE r1

\* the readings of one blockface that pass the three filters of processBlockfaceSeries
BlockfaceSeriesReadings(st, blockfaceData, blockfaceInfo) ==
    LET IsMine(r) == r.blockfaceId = blockfaceInfo.id
        InRange(r) == isInRange(r.timestamp, st.timeRange)
        r1 == SelectSeq(SelectSeq(blockfaceData.readings, IsMine), InRange)
        r2 == IF st.datePattern.type # "all" THEN filterByDayOfWeek(r1, st.datePattern.days) ELSE r1
    IN  IF st.timePattern.type # "all" THEN filterByHourRange(r2, st.timePattern.ranges) ELSE r2

BlockfaceSeriesFor(st, blockfaceData, blockfaceInfo, isTransactions) ==
    LET readings == BlockfaceSeriesReadings(st, blockfaceData, blockfaceInfo)
        buckets == bucketize(readings, st.aggregation)
        dataPoints == [i \in 1..Len(buckets) |->
            [x |-> buckets[i].key, value |-> StatBucketValue(st, buckets[i].readings, isTransactions)]]
    IN  IF Len(readings) = 0 THEN <<>> ELSE << MakeSeries(blockfaceInfo.id, SortPoints(dataPoints)) >>

RECURSIVE FeaturedBlockfaceSeries(_, _, _, _)
FeaturedBlockfaceSeries(st, blockfaceData, selectedBlockfaceIds, isTransactions) ==
    IF Len(selectedBlockfaceIds) = 0 THEN <<>>
    ELSE LET info == FindBlockface(blockfaceData.blockfaces, selectedBlockfaceIds[1])
             rest == FeaturedBlockfaceSeries(st, blockfaceData, Tail(selectedBlockfaceIds), isTransactions)
         IN  IF Len(info) = 0 THEN rest
             ELSE BlockfaceSeriesFor(st, blockfaceData, info[1], isTransactions) \o rest

processBlockfaceSeries(st, selectedBlockfaceIds, datasetType) ==
    LET blockfaceData == getActiveData(st, "blockface").blockfaceData
        isTransactions == datasetType = "transactions"
        series == IF Len(blockfaceData.readings) > 0 /\ Len(selectedBlockfaceIds) > 0
                  THEN FeaturedBlockfaceSeries(st, blockfaceData, selectedBlockfaceIds, isTransactions)
                  ELSE <<>>
        currentData == st.seriesDimension.currentData
        value == IF isTransactions THEN currentData.transactions
                 ELSE IF currentData.occupancy # Null THEN currentData.occupancy
                 ELSE Zero
    IN  IF Len(series) = 0 /\ currentData.present
        THEN << [id |-> st.seriesDimension.segmentId, data |-> << [x |-> "now", value |-> value] >>,
                 referenceValue |-> value] >>
        ELSE series

\* runDataPipeline().series
runDataPipeline(st) ==
    LET dimensionType == st.seriesDimension.type
        active == getActiveData(st, IF dimensionType = "blockface" THEN "blockface" ELSE "aoi")
        readings == PipelineReadings(st, active.data)
        selected == st.seriesDimension.selected
    IN  CASE dimensionType = "aoi" -> processAOISeries(st, readings, selected, active.data, active.datasetType)
          [] dimensionType = "dayOfWeek" -> processDayOfWeekSeries(st, readings, selected, active.datasetType)
          [] dimensionType = "timeOfDay" -> processTimeOfDaySeries(st, readings, selected, active.datasetType)
          [] dimensionType = "blockface" -> processBlockfaceSeries(st, selected, active.datasetType)
          [] OTHER -> <<>>

\* runDataPipeline().xAxis.data: the labels of the category axis, '00:00' ..
\* '23:00' as the hours 0..23 and 'Sun' .. 'Sat' as the weekdays 0..6; the
\* time axis has no labels
xAxisData(st, series) ==
    CASE st.seriesDimension.type = "dayOfWeek" /\ Len(series) > 0 -> [i \in 1..24 |-> i - 1]
      [] st.seriesDimension.type = "timeOfDay" -> [i \in 1..7 |-> i - 1]
      [] OTHER -> <<>>

\* src/ui/chart.js, buildTimeSeriesOption on a category axis: the series is
\* handed over as its values alone, s.data.map(d => d.value), and the i-th
\* value is drawn at the i-th label of the axis
CategoryPlot(axisData, s) ==
    [i \in 1..Len(s.data) |-> [label |-> axisData[i], value |-> s.data[i].value]]

\* a map value that is the statistic of the raw readings, without buckets
FinalValueOfRawReadings(st, rs, isTransactions) ==
    calculate(ReadingValues(rs, isTransactions), st.statistic)

\* bucketStats.reduce((a, b) => a + b, 0) / bucketStats.length over the buckets of the readings
FinalValue(st, rs, isTransactions) ==
    LET buckets == bucketize(rs, st.aggregation)
        bucketStats == [i \in 1..Len(buckets) |-> StatBucketValue(st, buckets[i].readings, isTransactions)]
    IN  IF Len(bucketStats) > 0 THEN QDiv(SumSeq(bucketStats), Num(Len(bucketStats))) ELSE Zero

calculateNeighborhoodOccupancy(st) ==
    LET active == getActiveData(st, "aoi")
        readings == PipelineReadings(st, active.data)
    IN  [i \in 1..Len(active.data.regions) |->
            LET region == active.data.regions[i]
                IsMine(r) == r.regionId = region.id
                regionReadings == SelectSeq(readings, IsMine)
            IN  [id |-> region.id,
                 value |-> IF Len(regionReadings) = 0 THEN Zero
                           ELSE FinalValue(st, regionReadings, active.datasetType = "transactions")]]

\* a blockface map that sends 0 for a blockface without matching readings
calculateBlockfaceOccupancyWithoutBase(st) ==
    LET active == getActiveData(st, "blockface")
        InRange(r) == isInRange(r.timestamp, st.timeRange)
        r1 == SelectSeq(active.blockfaceData.readings, InRange)
        r2 == IF st.datePattern.type # "all" THEN filterByDayOfWeek(r1, st.datePattern.days) ELSE r1
        readings == IF st.timePattern.type # "all" THEN filterByHourRange(r2, st.timePattern.ranges) ELSE r2
    IN  [i \in 1..Len(active.blockfaceData.blockfaces) |->
            LET blockface == active.blockfaceData.blockfaces[i]
                IsMine(r) == r.blockfaceId = blockface.id
                blockfaceReadings == SelectSeq(readings, IsMine)
            IN  [segmentId |-> blockface.segmentId,
                 value |-> FinalValue(st, blockfaceReadings, active.datasetType = "transactions")]]

calculateBlockfaceOccupancy(st) ==
    LET active == getActiveData(st, "blockface")
        InRange(r) == isInRange(r.timestamp, st.timeRange)
        r1 == SelectSeq(active.blockfaceData.readings, InRange)
        r2 == IF st.datePattern.type # "all" THEN filterByDayOfWeek(r1, st.datePattern.days) ELSE r1
        readings == IF st.timePattern.type # "all" THEN filterByHourRange(r2, st.timePattern.ranges) ELSE r2
    IN  [i \in 1..Len(active.blockfaceData.blockfaces) |->
            LET blockface == active.blockfaceData.blockfaces[i]
                IsMine(r) == r.blockfaceId = blockface.id
                blockfaceReadings == SelectSeq(readings, IsMine)
            IN  [segmentId |-> blockface.segmentId,
                 value |-> IF Len(blockfaceReadings) = 0 THEN blockface.baseOccupancy
                           ELSE FinalValue(st, blockfaceReadings, active.datasetType = "transactions")]]

----------------------------------------------------------------------------
(* Calls of the statistics module on bounded arrays *)

MaxLen == 3

StatNumbers == {Num(-1), Num(0), Num(2), Q(1, 4), Q(3, 10), Num(5)}

RECURSIVE SeqsUpTo(_, _)
SeqsUpTo(S, n) ==
    IF n = 0 THEN {<<>>}
    ELSE LET shorter == SeqsUpTo(S, n - 1)
         IN  shorter \cup {Append(s, x) : s \in {t \in shorter : Len(t) = n - 1}, x \in S}

PArgs == {-1, 0, 25, 50, 75, 90, 100, 101}

StatNames == {"average", "mean", "min", "minimum", "max", "maximum", "median", "mode",
              "p25", "percentile25", "p75", "percentile75", "p90", "percentile90",
              "stddev", "standardDeviation", "total", "sum",
              "actual", "unknownStat", "range"}

NoCall == [fn |-> "none", p |-> 0, type |-> ""]

\* parseLocalDate(undefined): no Date
NoDate == -1

\* no date range picker has been created
NoPicker ==
    [isOpen |-> FALSE, selecting |-> "start", tempStart |-> NoDate, tempEnd |-> NoDate, viewMonth |-> NoDate,
     confirmedStart |-> NoDate, confirmedEnd |-> NoDate, doneDisabled |-> TRUE,
     minDateObj |-> NoDate, maxDateObj |-> NoDate]

PickerIdle ==
    /\ picker = NoPicker
    /\ notified = <<>>
    /\ pickerEvent = "none"

\* no map has been created
NoMap ==
    [phase |-> "none", isLoaded |-> FALSE, aoiLayerVisible |-> TRUE, blockfaceLayerVisible |-> FALSE,
     pendingData |-> <<>>, aoiVisibility |-> "absent", blockfaceVisibility |-> "absent", fillColor |-> <<>>]

NoMapCalls == [aoi |-> TRUE, blockface |-> FALSE, data |-> <<>>]

MapIdle ==
    /\ mapgl = NoMap
    /\ mapCalls = NoMapCalls

\* no function of time-utils.js is being called
NoTimeCall == [fn |-> "none", t1 |-> 0, t2 |-> 0, days |-> <<>>, ranges |-> <<>>, range |-> [start |-> 0, end |-> 0], aggregation |-> ""]
NoTimeResult == [keys |-> <<>>, buckets |-> <<>>, kept |-> <<>>]

TimeIdle ==
    /\ input = <<>>
    /\ timeCall = NoTimeCall
    /\ timeResult = NoTimeResult

\* the statistics module is not being called
StatsIdle ==
    /\ values = <<>>
    /\ call = NoCall
    /\ result = Ret(Zero)

\* state.map.selectedNeighborhood and the argument of map.setSelectedNeighborhood:
\* null, one id, or an array of ids
NoSelection == [kind |-> "null", ids |-> <<>>]
OneId(id) == [kind |-> "id", ids |-> <<id>>]
IdList(ids) == [kind |-> "list", ids |-> ids]

\* the state object; the fields the settings do not cover start as main.js declares them
AppState(aoiDataset, blockfaceDataset, timeRange, aggregation, statistic, seriesDimension, combinedView, datePattern, timePattern) ==
    [aoiDataset |-> aoiDataset, blockfaceDataset |-> blockfaceDataset,
     aoiColorScheme |-> "viridis", blockfaceColorScheme |-> "viridis", timeRange |-> timeRange,
     aggregation |-> aggregation, statistic |-> statistic, seriesDimension |-> seriesDimension,
     combinedView |-> combinedView, datePattern |-> datePattern, timePattern |-> timePattern,
     map |-> [selectedNeighborhood |-> NoSelection],
     layers |-> [aoiVisible |-> TRUE, blockfaceVisible |-> FALSE]]

\* getAvailableTimeRange(readings): the UTC dates of the earliest and latest reading
getAvailableTimeRange(readings) ==
    LET days == {UTCDayNo(readings[i].timestamp) : i \in 1..Len(readings)}
    IN  [start |-> CHOOSE d \in days : \A e \in days : d <= e,
         end |-> CHOOSE d \in days : \A e \in days : d >= e]

\* getDefaultTimeRange(availableRange): one month from the start, clamped to the end
getDefaultTimeRange(availableRange) ==
    LET m == YMD(availableRange.start)[2]
        plusMonth == availableRange.start + (MonthStart[m + 1] - MonthStart[m])
    IN  [start |-> availableRange.start,
         end |-> IF plusMonth > availableRange.end THEN availableRange.end ELSE plusMonth]

DefaultState ==
    AppState("occupancy", "occupancy", getDefaultTimeRange(getAvailableTimeRange(ParkingData.readings)),
             "daily", "average", SeriesDimension("aoi", <<"sf-aggregate">>), FALSE,
             DATE_PATTERNS.all, TIME_PATTERNS.all)

\* the checkboxes of the AOI panel in document order
AOIOrder == <<"sf-aggregate">> \o [i \in 1..Len(Regions) |-> Regions[i].id]

\* createControlPanel(container, {initialState: st}): the panel's state copy,
\* the active tab and the checked boxes of the three series panels
createControlPanel(st) ==
    [seriesDimension |-> st.seriesDimension,
     layers |-> st.layers,
     tab |-> st.seriesDimension.type,
     aoiChecked |-> {AOIOrder[i] : i \in {j \in 1..Len(AOIOrder) : Includes(st.seriesDimension.selected, AOIOrder[j])}},
     dayChecked |-> {DAY_OF_WEEK_OPTIONS[i] : i \in 1..7},
     timeChecked |-> {TIME_OF_DAY_OPTIONS[i].id : i \in 1..Len(TIME_OF_DAY_OPTIONS)}]

\* createMap(container, options): the map before any setter call
createMap(st) ==
    [selectedNeighborhood |-> NoSelection, selectedBlockface |-> "",
     aoiColorScheme |-> st.aoiColorScheme, blockfaceColorScheme |-> st.blockfaceColorScheme,
     aoiVisible |-> st.layers.aoiVisible, blockfaceVisible |-> st.layers.blockfaceVisible]

\* the app is not running
AppIdle ==
    /\ tz = 0
    /\ state = DefaultState
    /\ chart = <<>>
    /\ mapData = <<>>
    /\ mapBlockface = <<>>
    /\ mapView = createMap(state)
    /\ ctl = createControlPanel(state)
    /\ saveTimer = FALSE
    /\ stored = <<>>
    /\ steps = 0

InitStats ==
    /\ values \in SeqsUpTo(StatNumbers, MaxLen) \cup {Null}
    /\ call = NoCall
    /\ result = Ret(Zero)
    /\ AppIdle
    /\ TimeIdle
    /\ PickerIdle
    /\ MapIdle

CallPercentile ==
    \E p \in PArgs :
        /\ call' = [fn |-> "percentile", p |-> p, type |-> ""]
        /\ result' = percentileCall(values, p)
        /\ values' = ValuesAfterPercentile(values, p)
        /\ UNCHANGED <<appVars, timeVars, pickerVars, mapVars>>

CallCalculate ==
    \E t \in StatNames :
        /\ call' = [fn |-> "calculate", p |-> 0, type |-> t]
        /\ result' = calculateCall(values, t)
        /\ values' = ValuesAfterCalculate(values, t)
        /\ UNCHANGED <<appVars, timeVars, pickerVars, mapVars>>

NextStats == CallPercentile \/ CallCalculate

SpecStats == InitStats /\ [][NextStats]_vars

\* C7: percentile(v, p) raises for every p outside [0, 100] and for every
\* array v, the empty array included; no value is returned.
C7_RaisesForEveryArray ==
    (call.fn = "percentile" /\ (call.p < 0 \/ call.p > 100)) => result.threw

\* percentile was called on an empty array with p = 101 and returned 0
C7_EmptyOutOfRange ==
    /\ call.fn = "percentile"
    /\ call.p = 101
    /\ values = <<>>
    /\ result = Ret(Zero)

\* C8: for every array v, percentile(v, 50) = median(v), percentile(v, 0) =
\* min(v) and percentile(v, 100) = max(v).
C8_PercentileLandmarks ==
    call.fn = "percentile" =>
        /\ call.p = 50 => result = Ret(median(values))
        /\ call.p = 0 => result = Ret(min(values))
        /\ call.p = 100 => result = Ret(max(values))

\* percentile(v, 50) on an unsorted array of even length, where the median is
\* the midpoint of two different elements
C8_EvenUnsortedMedian ==
    /\ call.fn = "percentile"
    /\ call.p = 50
    /\ values # Null
    /\ Len(values) = 2
    /\ QLt(values[2], values[1])
    /\ result = Ret(QDiv(QAdd(values[1], values[2]), Num(2)))

----------------------------------------------------------------------------
(* The pipeline on configuration snapshots: any state the controls, the map *)
(* and the stored settings can produce, rendered once as init() renders it. *)

\* the offsets from UTC of the runtimes considered: UTC and US Pacific
Offsets == {0, -480}

TimeRanges == {[start |-> 0, end |-> 31], [start |-> 0, end |-> 6]}

DatePatternChoices ==
    {DATE_PATTERNS.all, DATE_PATTERNS.weekends, [type |-> "custom", days |-> <<>>]}

TimePatternChoices ==
    {TIME_PATTERNS.all, TIME_PATTERNS.morning, TIME_PATTERNS.night, [type |-> "custom", ranges |-> <<<<20, 5>>>>]}

\* what handleBlockfaceClick stores for a segment that is not featured
CurrentData(occupancy, transactions) ==
    [present |-> TRUE, occupancy |-> occupancy, transactions |-> transactions]

NonFeaturedDimension(segmentId, properties) ==
    [type |-> "blockface", selected |-> <<>>, segmentId |-> segmentId,
     currentData |-> CurrentData(properties.occupancy, properties.transactions)]

FeaturedDimension(blockfaceInfo, segmentId) ==
    [type |-> "blockface", selected |-> <<blockfaceInfo.id>>, segmentId |-> segmentId,
     currentData |-> NoCurrentData]

\* properties of tileset segments that have no time series; the second one
\* carries no occupancy property
TilesetProperties ==
    << [segmentId |-> "seg9", occupancy |-> Num(30), transactions |-> Num(7)],
       [segmentId |-> "seg8", occupancy |-> Null, transactions |-> Zero] >>

DimensionChoices ==
    { SeriesDimension("aoi", <<"sf-aggregate">>),
      SeriesDimension("aoi", <<"mission">>),
      SeriesDimension("aoi", <<"mission", "soma">>),
      SeriesDimension("aoi", <<"sf-aggregate", "mission">>),
      SeriesDimension("dayOfWeek", <<"1", "6">>),
      SeriesDimension("dayOfWeek", DAY_OF_WEEK_OPTIONS),
      SeriesDimension("timeOfDay", <<"morning", "night">>),
      FeaturedDimension(BlockfaceData.blockfaces[1], "seg1"),
      FeaturedDimension(BlockfaceData.blockfaces[2], "seg2"),
      NonFeaturedDimension("seg9", TilesetProperties[1]),
      NonFeaturedDimension("seg8", TilesetProperties[2]) }

\* the AOI boxes checked while #combined-view is checked
CombinedSelections == {<<"mission", "soma">>, <<"mission">>, <<"sf-aggregate", "mission", "soma">>}

DatasetChoices == {<<"occupancy", "occupancy">>, <<"transactions", "occupancy">>,
                   <<"occupancy", "transactions">>}

\* the snapshots that carry the time pattern tp
SnapshotsWith(tp) ==
    { AppState(ds[1], ds[2], range, agg, stat, dim, combined, dp, tp) :
        ds \in DatasetChoices, range \in TimeRanges, agg \in getAggregationTypes,
        stat \in getStatisticTypes, dim \in DimensionChoices,
        combined \in {FALSE}, dp \in DatePatternChoices }
    \cup
    { AppState(ds[1], ds[2], range, agg, stat, SeriesDimension("aoi", selected), TRUE, dp, tp) :
        ds \in DatasetChoices, range \in TimeRanges, agg \in getAggregationTypes,
        stat \in getStatisticTypes, selected \in CombinedSelections,
        dp \in DatePatternChoices }

InitPipeline ==
    /\ StatsIdle
    /\ TimeIdle
    /\ PickerIdle
    /\ MapIdle
    /\ tz \in Offsets
    /\ \E tp \in TimePatternChoices : state \in SnapshotsWith(tp)
    /\ chart = <<>>
    /\ mapData = <<>>
    /\ mapBlockface = <<>>
    /\ mapView = createMap(state)
    /\ ctl = createControlPanel(state)
    /\ saveTimer = FALSE
    /\ stored = <<>>
    /\ steps = 0

\* updateVisualization(); updateMapVisualization()
Render ==
    /\ steps = 0
    /\ chart' = runDataPipeline(state)
    /\ mapData' = calculateNeighborhoodOccupancy(state)
    /\ mapBlockface' = calculateBlockfaceOccupancy(state)
    /\ steps' = 1
    /\ UNCHANGED <<statVars, timeVars, pickerVars, mapVars, tz, state, mapView, ctl, saveTimer, stored>>

NextPipeline == Render

SpecPipeline == InitPipeline /\ [][NextPipeline]_vars

\* C1: for any configuration snapshot and any individual region, the value
\* calculateNeighborhoodOccupancy computes for the region equals the
\* referenceValue of the region's series of processAOISeries (aoi dimension,
\* combinedView off), and both are 0 when no reading of the region passes the
\* filters.
C1_MapValueIsReferenceValue ==
    (steps = 1 /\ state.seriesDimension.type = "aoi" /\ ~state.combinedView) =>
        \A i \in 1..Len(state.seriesDimension.selected) :
            LET id == state.seriesDimension.selected[i]
                data == getActiveData(state, "aoi").data
                IsMine(r) == r.regionId = id
                passing == SelectSeq(PipelineReadings(state, data), IsMine)
            IN  (\E n \in 1..Len(data.regions) : data.regions[n].id = id) =>
                    \E k \in 1..Len(chart), j \in 1..Len(mapData) :
                        /\ chart[k].id = id
                        /\ mapData[j].id = id
                        /\ mapData[j].value = chart[k].referenceValue
                        /\ Len(passing) = 0 => mapData[j].value = Zero

\* the Mission series under daily average in UTC: its first bucket holds two
\* readings of different capacity, and map value and reference value are both 50
C1_MissionDailyAverage ==
    /\ steps = 1
    /\ tz = 0
    /\ state.seriesDimension = SeriesDimension("aoi", <<"mission">>)
    /\ state.aoiDataset = "occupancy"
    /\ state.statistic = "average"
    /\ state.aggregation = "daily"
    /\ Len(chart[1].data) = 3
    /\ chart[1].referenceValue = Num(50)
    /\ mapData[1] = [id |-> "mission", value |-> Num(50)]

\* C3: for any configuration snapshot and any featured blockface shown as a
\* series of the blockface dimension, the value calculateBlockfaceOccupancy
\* computes for it equals the referenceValue of its series.
C3_BlockfaceMapValueIsReferenceValue ==
    (steps = 1 /\ state.seriesDimension.type = "blockface") =>
        \A k \in 1..Len(chart), b \in 1..Len(BlockfaceData.blockfaces) :
            chart[k].id = BlockfaceData.blockfaces[b].id =>
                \E j \in 1..Len(mapBlockface) :
                    /\ mapBlockface[j].segmentId = BlockfaceData.blockfaces[b].segmentId
                    /\ mapBlockface[j].value = chart[k].referenceValue

\* the featured blockface seg1 under the weekends pattern: one of its three
\* readings passes, and the series and the map agree on its value
C3_FeaturedUnderWeekends ==
    /\ steps = 1
    /\ tz = 0
    /\ state.seriesDimension.type = "blockface"
    /\ state.datePattern.type = "weekends"
    /\ state.blockfaceDataset = "occupancy"
    /\ Len(chart) = 1
    /\ chart[1].id = "seg1"
    /\ chart[1].referenceValue = Num(50)
    /\ mapBlockface[1] = [segmentId |-> "seg1", value |-> Num(50)]

\* C4 (as claimed): in the aoi dimension with the occupancy dataset and the
\* statistic 'average', every point of the series of every selected entity,
\* individual regions as well as 'sf-aggregate', is the capacity-weighted rate
\* 100 * (sum of occupied) / (sum of capacity) of the readings of its bucket.
C4_EveryEntityCapacityWeighted ==
    (/\ steps = 1
     /\ state.seriesDimension.type = "aoi"
     /\ state.aoiDataset = "occupancy"
     /\ state.statistic = "average"
     /\ ~state.combinedView) =>
        \A k \in 1..Len(chart) : \A n \in 1..Len(chart[k].data) :
            LET InBucket(r) ==
                    /\ chart[k].id = "sf-aggregate" \/ r.regionId = chart[k].id
                    /\ getBucketKey(r.timestamp, state.aggregation) = chart[k].data[n].x
                rs == SelectSeq(PipelineReadings(state, ParkingData), InBucket)
                occupied == SumSeq([i \in 1..Len(rs) |-> Num(rs[i].occupied)])
                capacity == SumSeq([i \in 1..Len(rs) |-> Num(rs[i].capacity)])
            IN  chart[k].data[n].value = QDiv(QMul(Num(100), occupied), capacity)

\* C4 (amended): in the aoi dimension with the occupancy dataset and the
\* statistic 'average', every point of the 'sf-aggregate' series is the
\* capacity-weighted rate 100 * (sum of occupied) / (sum of capacity) of the
\* readings of its bucket, and every point of an individual region's series
\* is the unweighted mean of the percentages 100 * occupied / capacity of the
\* region's readings of the bucket.
C4_AggregateWeightedRegionsUnweighted ==
    (/\ steps = 1
     /\ state.seriesDimension.type = "aoi"
     /\ state.aoiDataset = "occupancy"
     /\ state.statistic = "average"
     /\ ~state.combinedView) =>
        \A k \in 1..Len(chart) : \A n \in 1..Len(chart[k].data) :
            LET InBucket(r) ==
                    /\ chart[k].id = "sf-aggregate" \/ r.regionId = chart[k].id
                    /\ getBucketKey(r.timestamp, state.aggregation) = chart[k].data[n].x
                rs == SelectSeq(PipelineReadings(state, ParkingData), InBucket)
                occupied == SumSeq([i \in 1..Len(rs) |-> Num(rs[i].occupied)])
                capacity == SumSeq([i \in 1..Len(rs) |-> Num(rs[i].capacity)])
                percentages == [i \in 1..Len(rs) |-> QDiv(Num(100 * rs[i].occupied), Num(rs[i].capacity))]
            IN  chart[k].data[n].value =
                    IF chart[k].id = "sf-aggregate"
                    THEN QDiv(QMul(Num(100), occupied), capacity)
                    ELSE QDiv(SumSeq(percentages), Num(Len(rs)))

\* the aggregate and Mission side by side under daily average in UTC: in the
\* bucket of 2024-01-01 the aggregate shows the weighted rate 450/19 of three
\* readings and Mission shows 30, the plain mean of 50 and 10, where its
\* weighted rate would be 70/3
C4_AggregateBesideMission ==
    /\ steps = 1
    /\ tz = 0
    /\ state.seriesDimension = SeriesDimension("aoi", <<"sf-aggregate", "mission">>)
    /\ state.aoiDataset = "occupancy"
    /\ state.statistic = "average"
    /\ state.aggregation = "daily"
    /\ state.datePattern.type = "all"
    /\ state.timePattern.type = "all"
    /\ chart[1].data[1] = [x |-> <<2024, 1, 1>>, value |-> Q(450, 19)]
    /\ chart[2].data[1] = [x |-> <<2024, 1, 1>>, value |-> Num(30)]

\* C5: every series runDataPipeline returns, in every dimension, has a
\* referenceValue equal to the arithmetic mean of the values of its own
\* points, and 0 when it has no points.
C5_ReferenceValueIsMeanOfPoints ==
    steps = 1 =>
        \A k \in 1..Len(chart) :
            LET pointValues == [n \in 1..Len(chart[k].data) |-> chart[k].data[n].value]
            IN  chart[k].referenceValue =
                    IF Len(pointValues) = 0 THEN Zero
                    ELSE QDiv(SumSeq(pointValues), Num(Len(pointValues)))

\* a timeOfDay series: seven points, some of them 0 for days without
\* readings, and a reference value that is their mean and not their sum
C5_TimeOfDaySevenPoints ==
    /\ steps = 1
    /\ state.seriesDimension.type = "timeOfDay"
    /\ Len(chart) > 0
    /\ Len(chart[1].data) = 7
    /\ chart[1].data[1].value = Zero
    /\ chart[1].referenceValue # Zero
    /\ QMul(chart[1].referenceValue, Num(7)) = SumSeq([n \in 1..7 |-> chart[1].data[n].value])

\* C6 (as claimed): the readings that feed series construction are exactly
\* those that pass isInRange, match a weekday of the date pattern unless the
\* pattern is 'all' or the dimension is dayOfWeek, and match an hour range of
\* the time pattern unless the pattern is 'all' or the dimension is timeOfDay,
\* in input order.
C6_FedReadingsMatchPatterns ==
    steps = 1 =>
        LET Keep(r) ==
                /\ isInRange(r.timestamp, state.timeRange)
                /\ \/ state.datePattern.type = "all"
                   \/ state.seriesDimension.type = "dayOfWeek"
                   \/ Includes(state.datePattern.days, getDayOfWeek(r.timestamp))
                /\ \/ state.timePattern.type = "all"
                   \/ state.seriesDimension.type = "timeOfDay"
                   \/ \E i \in 1..Len(state.timePattern.ranges) :
                        /\ getHour(r.timestamp) >= state.timePattern.ranges[i][1]
                        /\ getHour(r.timestamp) <= state.timePattern.ranges[i][2]
            data == getActiveData(state, "aoi").data
        IN  IF state.seriesDimension.type = "blockface"
            THEN \A b \in 1..Len(BlockfaceData.blockfaces) :
                    LET IsMine(r) == r.blockfaceId = BlockfaceData.blockfaces[b].id
                    IN  BlockfaceSeriesReadings(state, BlockfaceData, BlockfaceData.blockfaces[b])
                            = SelectSeq(SelectSeq(BlockfaceData.readings, IsMine), Keep)
            ELSE PipelineReadings(state, data) = SelectSeq(data.readings, Keep)

\* C6 (amended): the readings that feed series construction are exactly those
\* that pass isInRange, match a weekday of the date pattern unless the pattern
\* is 'all', its list of days is empty, or the dimension is dayOfWeek, and
\* match an hour range of the time pattern unless the pattern is 'all' or the
\* dimension is timeOfDay, in input order.
C6_FedReadingsMatchNonEmptyPatterns ==
    steps = 1 =>
        LET Keep(r) ==
                /\ isInRange(r.timestamp, state.timeRange)
                /\ \/ state.datePattern.type = "all"
                   \/ Len(state.datePattern.days) = 0
                   \/ state.seriesDimension.type = "dayOfWeek"
                   \/ Includes(state.datePattern.days, getDayOfWeek(r.timestamp))
                /\ \/ state.timePattern.type = "all"
                   \/ state.seriesDimension.type = "timeOfDay"
                   \/ \E i \in 1..Len(state.timePattern.ranges) :
                        /\ getHour(r.timestamp) >= state.timePattern.ranges[i][1]
                        /\ getHour(r.timestamp) <= state.timePattern.ranges[i][2]
            data == getActiveData(state, "aoi").data
        IN  IF state.seriesDimension.type = "blockface"
            THEN \A b \in 1..Len(BlockfaceData.blockfaces) :
                    LET IsMine(r) == r.blockfaceId = BlockfaceData.blockfaces[b].id
                    IN  BlockfaceSeriesReadings(state, BlockfaceData, BlockfaceData.blockfaces[b])
                            = SelectSeq(SelectSeq(BlockfaceData.readings, IsMine), Keep)
            ELSE PipelineReadings(state, data) = SelectSeq(data.readings, Keep)

\* the custom date pattern with every day unchecked in the aoi dimension: the
\* morning filter drops readings of the first week, the empty day list none
C6_EmptyCustomDays ==
    /\ steps = 1
    /\ tz = 0
    /\ state.seriesDimension.type = "aoi"
    /\ state.datePattern = [type |-> "custom", days |-> <<>>]
    /\ state.timePattern.type = "morning"
    /\ state.timeRange = [start |-> 0, end |-> 6]
    /\ Len(PipelineReadings(state, ParkingData)) = 3

\* C16: in the dayOfWeek dimension every series has exactly 24 points, the
\* i-th being hour i - 1 of the day, and the chart draws it at the i-th label
\* (00:00 .. 23:00); under 'actual' there is one series for each calendar date
\* of a selected weekday with readings in range, each point the mean of the
\* date's readings of the hour; under any other statistic there is one series
\* for each selected weekday, each point calculate() over the readings of the
\* weekday and the hour.
C16_TwentyFourHourlyPoints ==
    (steps = 1 /\ state.seriesDimension.type = "dayOfWeek") =>
        LET active == getActiveData(state, "aoi")
            fed == PipelineReadings(state, active.data)
            selected == state.seriesDimension.selected
            selectedDays == {DayNum(selected[n]) : n \in 1..Len(selected)}
            OnSelected == {n \in 1..Len(fed) : getUTCDay(fed[n].timestamp) \in selectedDays}
            Of(dayNum, dateKey, hour) ==
                LET Match(r) == /\ getUTCDay(r.timestamp) = dayNum
                                /\ getUTCHours(r.timestamp) = hour
                                /\ (state.statistic = "actual" => ISODate(r.timestamp) = dateKey)
                IN  ReadingValues(SelectSeq(fed, Match), active.datasetType = "transactions")
        IN  /\ \A k \in 1..Len(chart) :
                /\ Len(chart[k].data) = 24
                /\ \A i \in 1..24 :
                    /\ chart[k].data[i].x = i - 1
                    /\ CategoryPlot(xAxisData(state, chart), chart[k])[i].label = i - 1
            /\ IF state.statistic = "actual"
               THEN /\ {<<chart[k].dayNum, chart[k].dateKey>> : k \in 1..Len(chart)}
                        = {<<getUTCDay(fed[n].timestamp), ISODate(fed[n].timestamp)>> : n \in OnSelected}
                    /\ \A k, l \in 1..Len(chart) :
                        (chart[k].dayNum = chart[l].dayNum /\ chart[k].dateKey = chart[l].dateKey) => k = l
               ELSE /\ {chart[k].dayNum : k \in 1..Len(chart)} = selectedDays
                    /\ \A k, l \in 1..Len(chart) : chart[k].dayNum = chart[l].dayNum => k = l
            /\ \A k \in 1..Len(chart) : \A i \in 1..Len(chart[k].data) :
                    chart[k].data[i].value =
                        IF state.statistic = "actual"
                        THEN PlainAverage(Of(chart[k].dayNum, chart[k].dateKey, chart[k].data[i].x))
                        ELSE calculate(Of(chart[k].dayNum, <<>>, chart[k].data[i].x), state.statistic)

\* C16: under the morning time pattern the Monday series has the two points of
\* the hours 7 and 8, and the chart draws them at the labels 00:00 and 01:00
C16_MorningHoursAtMidnightLabels ==
    /\ steps = 1
    /\ tz = 0
    /\ state.seriesDimension.type = "dayOfWeek"
    /\ state.statistic = "average"
    /\ state.timePattern = TIME_PATTERNS.morning
    /\ \E k \in 1..Len(chart) :
        /\ chart[k].dayNum = 1
        /\ Len(chart[k].data) = 2
        /\ chart[k].data[1].x = 7
        /\ chart[k].data[2].x = 8
        /\ CategoryPlot(xAxisData(state, chart), chart[k])[1].label = 0
        /\ CategoryPlot(xAxisData(state, chart), chart[k])[2].label = 1

C19_SinglePointWhenNoReadingPasses ==
    (steps = 1 /\ state.seriesDimension.type = "blockface") =>
        LET selected == state.seriesDimension.selected
            currentData == state.seriesDimension.currentData
            Passing(id) ==
                LET info == FindBlockface(BlockfaceData.blockfaces, id)
                IN  IF Len(info) = 0 THEN <<>>
                    ELSE BlockfaceSeriesReadings(state, BlockfaceData, info[1])
        IN  (\A n \in 1..Len(selected) : Len(Passing(selected[n])) = 0) =>
                /\ Len(chart) = 1
                /\ Len(chart[1].data) = 1
                /\ chart[1].referenceValue = chart[1].data[1].value
                /\ currentData.present =>
                        chart[1].data[1].value =
                            IF state.blockfaceDataset = "transactions" THEN currentData.transactions
                            ELSE IF currentData.occupancy = Null THEN Zero
                            ELSE currentData.occupancy

\* C19: the featured blockface seg2 is clicked while the range is the first
\* week of January; its only reading is of 2024-02-01, and the chart has no
\* series at all
C19_FeaturedOutOfRangeIsEmpty ==
    /\ steps = 1
    /\ state.seriesDimension = FeaturedDimension(BlockfaceData.blockfaces[2], "seg2")
    /\ state.timeRange = [start |-> 0, end |-> 6]
    /\ Len(BlockfaceSeriesReadings(state, BlockfaceData, BlockfaceData.blockfaces[2])) = 0
    /\ chart = <<>>

\* C26: the pipeline assigns a reading the hour and the weekday the filters
\* test, whatever the time zone of the runtime.  On the Day of Week dimension
\* under a time pattern of hour ranges every point's hour lies in a range of
\* the pattern, and the (weekday, hour) pairs on the chart are those
\* getDayOfWeek and getHour give the readings fed to it; on the Time of Day
\* dimension the periods on the chart are those that hold the getHour of a
\* reading fed to it.
C26_OneClockForFiltersAndSeries ==
    steps = 1 =>
        LET fed == PipelineReadings(state, getActiveData(state, "aoi").data)
            selected == state.seriesDimension.selected
            ranges == state.timePattern.ranges
            InPeriod(hour, option) ==
                IF option.start < option.end THEN hour >= option.start /\ hour < option.end
                ELSE hour >= option.start \/ hour < option.end
        IN  /\ (state.seriesDimension.type = "dayOfWeek" /\ state.timePattern.type # "all") =>
                    \A i \in 1..Len(chart) : \A j \in 1..Len(chart[i].data) :
                        \E k \in 1..Len(ranges) :
                            chart[i].data[j].x >= ranges[k][1] /\ chart[i].data[j].x <= ranges[k][2]
            /\ state.seriesDimension.type = "dayOfWeek" =>
                    UNION {{<<chart[i].dayNum, chart[i].data[j].x>> : j \in 1..Len(chart[i].data)} : i \in 1..Len(chart)}
                        = {<<getDayOfWeek(fed[n].timestamp), getHour(fed[n].timestamp)>> :
                              n \in {m \in 1..Len(fed) :
                                       \E d \in 1..Len(selected) :
                                           /\ Includes(DAY_OF_WEEK_OPTIONS, selected[d])
                                           /\ DayNum(selected[d]) = getDayOfWeek(fed[m].timestamp)}}
            /\ state.seriesDimension.type = "timeOfDay" =>
                    {chart[i].periodId : i \in 1..Len(chart)}
                        = {TIME_OF_DAY_OPTIONS[o].id :
                              o \in {q \in 1..Len(TIME_OF_DAY_OPTIONS) :
                                       /\ Includes(selected, TIME_OF_DAY_OPTIONS[q].id)
                                       /\ \E n \in 1..Len(fed) :
                                              InPeriod(getHour(fed[n].timestamp), TIME_OF_DAY_OPTIONS[q])}}

\* a runtime eight hours behind UTC on the Day of Week dimension under the
\* night pattern (hours 0 to 5): the readings of Monday 2024-01-01 08:00Z, local
\* midnight, pass the filter and are drawn on Monday's series at hour 8
C26_LocalMidnightDrawnAtEight ==
    /\ steps = 1
    /\ tz = -480
    /\ state.seriesDimension = SeriesDimension("dayOfWeek", DAY_OF_WEEK_OPTIONS)
    /\ state.timePattern = TIME_PATTERNS.night
    /\ state.statistic = "average"
    /\ state.timeRange = [start |-> 0, end |-> 6]
    /\ Len(chart) = 1
    /\ chart[1].dayNum = 1
    /\ Len(chart[1].data) = 1
    /\ chart[1].data[1].x = 8

\* C27: the statistic names 'mean' and 'average', which calculate treats alike,
\* give the same chart: for every configuration the series, their points and
\* their referenceValues under 'mean' are those under 'average'.
C27_MeanChartIsAverageChart ==
    (steps = 1 /\ state.statistic = "average") =>
        runDataPipeline([state EXCEPT !.statistic = "mean"]) = chart

\* the aggregate on the daily occupancy chart of the first week: under
\* 'average' Monday 2024-01-01 is 9 occupied of 38 spaces, under 'mean' the
\* mean of 50, 25 and 10 percent
C27_AggregateWeightedUnderAverageOnly ==
    /\ steps = 1
    /\ tz = 0
    /\ state.statistic = "average"
    /\ state.aoiDataset = "occupancy"
    /\ state.aggregation = "daily"
    /\ state.timeRange = [start |-> 0, end |-> 6]
    /\ state.datePattern.type = "all"
    /\ state.timePattern.type = "all"
    /\ state.seriesDimension = SeriesDimension("aoi", <<"sf-aggregate">>)
    /\ chart[1].data[1].value = Q(900, 38)
    /\ runDataPipeline([state EXCEPT !.statistic = "mean"])[1].data[1].value = Q(85, 3)

----------------------------------------------------------------------------
(* The statistics module called while the app is idle, together with the   *)
(* pipeline on configuration snapshots.                                    *)

InitEmptyInput == InitStats \/ InitPipeline

NextEmptyInput == (AppIdle /\ NextStats) \/ (StatsIdle /\ NextPipeline)

SpecEmptyInput == InitEmptyInput /\ [][NextEmptyInput]_vars

----------------------------------------------------------------------------
(* src/main.js: the running app.  A step is one event: a control of the    *)
(* panel changes and the panel's handleChange calls handleStateChange with *)
(* the one key it changed, the map reports a click on a visible layer, or  *)
(* the save timer fires.  Hovering and the reset button (a page reload)    *)
(* are left out.                                                           *)

\* number of control changes and clicks in a session
MaxSteps == 2

\* saveSettings(state): the keys that are stored
Persistable(st) ==
    [aoiDataset |-> st.aoiDataset, blockfaceDataset |-> st.blockfaceDataset,
     aoiColorScheme |-> st.aoiColorScheme, blockfaceColorScheme |-> st.blockfaceColorScheme,
     aggregation |-> st.aggregation, statistic |-> st.statistic,
     seriesDimension |-> st.seriesDimension, combinedView |-> st.combinedView,
     datePattern |-> st.datePattern, timePattern |-> st.timePattern, layers |-> st.layers]

\* what an earlier session may have left in localStorage: nothing, the settings
\* saved with the weekends filter set and the Day of Week tab opened, or the
\* settings saved with every box of the AOI panel checked
StoredChoices ==
    { <<>>,
      << Persistable([DefaultState EXCEPT !.datePattern = DATE_PATTERNS.weekends,
                                          !.seriesDimension = SeriesDimension("dayOfWeek", DAY_OF_WEEK_OPTIONS)]) >>,
      << Persistable([DefaultState EXCEPT !.seriesDimension = SeriesDimension("aoi", AOIOrder)]) >> }

\* init(): Object.assign(state, loadSettings()), then the default time range
InitialState(saved) ==
    IF saved = <<>> THEN DefaultState
    ELSE [DefaultState EXCEPT
            !.aoiDataset = saved[1].aoiDataset,
            !.blockfaceDataset = saved[1].blockfaceDataset,
            !.aoiColorScheme = saved[1].aoiColorScheme,
            !.blockfaceColorScheme = saved[1].blockfaceColorScheme,
            !.aggregation = saved[1].aggregation,
            !.statistic = saved[1].statistic,
            !.seriesDimension = saved[1].seriesDimension,
            !.combinedView = saved[1].combinedView,
            !.datePattern = saved[1].datePattern,
            !.timePattern = saved[1].timePattern,
            !.layers = saved[1].layers]

Init ==
    /\ StatsIdle
    /\ TimeIdle
    /\ PickerIdle
    /\ MapIdle
    /\ tz \in Offsets
    /\ stored \in StoredChoices
    /\ state = InitialState(stored)
    /\ chart = runDataPipeline(state)
    /\ mapData = calculateNeighborhoodOccupancy(state)
    /\ mapBlockface = calculateBlockfaceOccupancy(state)
    /\ mapView = createMap(state)
    /\ ctl = createControlPanel(state)
    /\ saveTimer = FALSE
    /\ steps = 0

\* selected.filter(id => id !== 'sf-aggregate')
ValidSelections(selected) ==
    LET NotAggregate(id) == id # "sf-aggregate" IN SelectSeq(selected, NotAggregate)

\* the checked boxes of a panel in document order, or all of them when none is checked
CheckedOrAll(order, checked, fallback) ==
    LET IsChecked(id) == id \in checked
        picked == SelectSeq(order, IsChecked)
    IN  IF Len(picked) = 0 THEN fallback ELSE picked

PeriodOrder == [i \in 1..Len(TIME_OF_DAY_OPTIONS) |-> TIME_OF_DAY_OPTIONS[i].id]

\* the values the controls are moved to
DatasetIds == {"occupancy", "transactions"}
ColorSchemeIds == {"viridis", "plasma"}
PickedStatistics == {"average", "max"}
PickedAggregations == {"daily", "weekly"}
DatePatternRadios == {"all", "weekends", "custom"}
TimePatternRadios == {"all", "morning"}
ToggledDays == {"6"}
ToggledPeriods == {"night"}

\* A listener of the control panel calls handleChange(changes). Each operator
\* below gives the calls one kind of listener can make in the current state:
\* key is the key of changes, st is the app state with changes assigned, and
\* panel is the control panel after the listener has run.
Change(key, st, panel) == [key |-> key, st |-> st, panel |-> panel]

\* #aoi-dataset-select changes
AoiDatasetSelect ==
    {Change("aoiDataset", [state EXCEPT !.aoiDataset = ds], ctl) : ds \in DatasetIds \ {state.aoiDataset}}

\* #blockface-dataset-select changes
BlockfaceDatasetSelect ==
    {Change("blockfaceDataset", [state EXCEPT !.blockfaceDataset = ds], ctl) :
        ds \in DatasetIds \ {state.blockfaceDataset}}

\* #aoi-color-scheme-select changes
AoiColorSchemeSelect ==
    {Change("aoiColorScheme", [state EXCEPT !.aoiColorScheme = scheme], ctl) :
        scheme \in ColorSchemeIds \ {state.aoiColorScheme}}

\* #blockface-color-scheme-select changes
BlockfaceColorSchemeSelect ==
    {Change("blockfaceColorScheme", [state EXCEPT !.blockfaceColorScheme = scheme], ctl) :
        scheme \in ColorSchemeIds \ {state.blockfaceColorScheme}}

\* #layer-aoi or #layer-blockface is toggled
LayerToggle ==
    {LET layers == [ctl.layers EXCEPT ![layer] = ~ctl.layers[layer]]
     IN  Change("layers", [state EXCEPT !.layers = layers], [ctl EXCEPT !.layers = layers]) :
        layer \in {"aoiVisible", "blockfaceVisible"}}

\* the date range picker reports a range
TimeRangePick ==
    {Change("timeRange", [state EXCEPT !.timeRange = range], ctl) : range \in TimeRanges \ {state.timeRange}}

\* an aggregation radio is chosen
AggregationChange ==
    {Change("aggregation", [state EXCEPT !.aggregation = aggregation], ctl) :
        aggregation \in PickedAggregations \ {state.aggregation}}

\* #statistic-select changes
StatisticChange ==
    {Change("statistic", [state EXCEPT !.statistic = statistic], ctl) :
        statistic \in PickedStatistics \ {state.statistic}}

\* a series tab is clicked
SeriesTabClick ==
    {LET selected ==
            CASE dimension = "aoi" -> CheckedOrAll(AOIOrder, ctl.aoiChecked, <<"sf-aggregate">>)
              [] dimension = "dayOfWeek" -> CheckedOrAll(DAY_OF_WEEK_OPTIONS, ctl.dayChecked, DAY_OF_WEEK_OPTIONS)
              [] OTHER -> CheckedOrAll(PeriodOrder, ctl.timeChecked, PeriodOrder)
         seriesDimension == SeriesDimension(dimension, selected)
     IN  Change("seriesDimension", [state EXCEPT !.seriesDimension = seriesDimension],
                [ctl EXCEPT !.tab = dimension, !.seriesDimension = seriesDimension]) :
        dimension \in {"aoi", "dayOfWeek", "timeOfDay"}}

\* a checkbox of the AOI panel is toggled: triggerAOIChange()
AOICheckboxChange ==
    {LET checked == IF id \in ctl.aoiChecked THEN ctl.aoiChecked \ {id} ELSE ctl.aoiChecked \cup {id}
         seriesDimension == [ctl.seriesDimension EXCEPT
                                !.type = "aoi",
                                !.selected = CheckedOrAll(AOIOrder, checked, <<"sf-aggregate">>)]
     IN  Change("seriesDimension", [state EXCEPT !.seriesDimension = seriesDimension],
                [ctl EXCEPT !.aoiChecked = checked, !.seriesDimension = seriesDimension]) :
        id \in {a \in {AOIOrder[i] : i \in 1..Len(AOIOrder)} : ctl.tab = "aoi"}}

\* a checkbox of the Day of Week panel is toggled
DaySeriesCheckboxChange ==
    {LET checked == IF day \in ctl.dayChecked THEN ctl.dayChecked \ {day} ELSE ctl.dayChecked \cup {day}
         seriesDimension == [ctl.seriesDimension EXCEPT
                                !.type = "dayOfWeek",
                                !.selected = CheckedOrAll(DAY_OF_WEEK_OPTIONS, checked, DAY_OF_WEEK_OPTIONS)]
     IN  Change("seriesDimension", [state EXCEPT !.seriesDimension = seriesDimension],
                [ctl EXCEPT !.dayChecked = checked, !.seriesDimension = seriesDimension]) :
        day \in {d \in ToggledDays : ctl.tab = "dayOfWeek"}}

\* a checkbox of the Time of Day panel is toggled
TimeSeriesCheckboxChange ==
    {LET checked == IF period \in ctl.timeChecked THEN ctl.timeChecked \ {period}
                    ELSE ctl.timeChecked \cup {period}
         seriesDimension == [ctl.seriesDimension EXCEPT
                                !.type = "timeOfDay",
                                !.selected = CheckedOrAll(PeriodOrder, checked, PeriodOrder)]
     IN  Change("seriesDimension", [state EXCEPT !.seriesDimension = seriesDimension],
                [ctl EXCEPT !.timeChecked = checked, !.seriesDimension = seriesDimension]) :
        period \in {t \in ToggledPeriods : ctl.tab = "timeOfDay"}}

\* #combined-view is toggled; the box is part of the AOI panel
CombinedViewToggle ==
    {Change("combinedView", [state EXCEPT !.combinedView = ~state.combinedView], ctl) :
        on \in {t \in {TRUE} : ctl.tab = "aoi"}}

\* a date pattern radio is chosen; the section is hidden on the Day of Week tab
DatePatternChange ==
    {Change("datePattern",
            [state EXCEPT !.datePattern = IF radio \in DOMAIN DATE_PATTERNS THEN DATE_PATTERNS[radio]
                                          ELSE DATE_PATTERNS.all],
            ctl) :
        radio \in {r \in DatePatternRadios : ctl.tab # "dayOfWeek"}}

\* a time pattern radio is chosen; the section is hidden on the Time of Day tab
TimePatternChange ==
    {Change("timePattern", [state EXCEPT !.timePattern = TIME_PATTERNS[radio]], ctl) :
        radio \in {r \in TimePatternRadios : ctl.tab # "timeOfDay"}}

\* handleStateChange(changes) for changes = {key: ...}; st is the state after
\* Object.assign(state, changes)
handleStateChange(key, st) ==
    LET datasetKey == key \in {"aoiDataset", "blockfaceDataset"}
        colorKey == key \in {"aoiColorScheme", "blockfaceColorScheme"}
        chartUpdated ==
            CASE key = "aoiDataset" -> st.seriesDimension.type # "blockface"
              [] key = "blockfaceDataset" -> st.seriesDimension.type = "blockface"
              [] colorKey -> FALSE
              [] OTHER -> TRUE
        mapUpdated ==
            datasetKey \/ key \in {"timeRange", "aggregation", "statistic", "datePattern", "timePattern"}
        aoiChange == key = "seriesDimension" /\ st.seriesDimension.type = "aoi"
        valid == ValidSelections(st.seriesDimension.selected)
        colored == [mapView EXCEPT !.aoiColorScheme = st.aoiColorScheme,
                                   !.blockfaceColorScheme = st.blockfaceColorScheme]
        shown == IF key = "layers"
                 THEN [mapView EXCEPT !.aoiVisible = st.layers.aoiVisible,
                                      !.blockfaceVisible = st.layers.blockfaceVisible]
                 ELSE mapView
    IN  /\ saveTimer' = TRUE
        /\ chart' = IF chartUpdated THEN runDataPipeline(st) ELSE chart
        /\ mapData' = IF mapUpdated THEN calculateNeighborhoodOccupancy(st) ELSE mapData
        /\ mapBlockface' = IF mapUpdated THEN calculateBlockfaceOccupancy(st) ELSE mapBlockface
        /\ state' = IF ~aoiChange THEN st
                    ELSE IF Len(valid) = 0
                    THEN [st EXCEPT !.map.selectedNeighborhood = NoSelection]
                    ELSE IF Len(valid) = 1
                    THEN [st EXCEPT !.map.selectedNeighborhood = OneId(valid[1])]
                    ELSE [st EXCEPT !.map.selectedNeighborhood = IdList(valid)]
        /\ mapView' = IF colorKey THEN colored
                      ELSE IF ~aoiChange THEN shown
                      ELSE IF Len(valid) = 0
                      THEN [shown EXCEPT !.selectedNeighborhood = NoSelection]
                      ELSE [shown EXCEPT !.selectedNeighborhood = IdList(valid)]

\* handleChange(changes) of the control panel: Object.assign(state, changes) on
\* the panel's copy, then onStateChange(changes), which is handleStateChange
handleChange ==
    \E change \in AoiDatasetSelect \cup BlockfaceDatasetSelect \cup AoiColorSchemeSelect
                  \cup BlockfaceColorSchemeSelect \cup LayerToggle \cup TimeRangePick
                  \cup AggregationChange \cup StatisticChange \cup SeriesTabClick
                  \cup AOICheckboxChange \cup DaySeriesCheckboxChange \cup TimeSeriesCheckboxChange
                  \cup CombinedViewToggle \cup DatePatternChange \cup TimePatternChange :
        /\ steps < MaxSteps
        /\ handleStateChange(change.key, change.st)
        /\ ctl' = change.panel
        /\ steps' = steps + 1
        /\ UNCHANGED <<statVars, timeVars, pickerVars, mapVars, tz, stored>>

\* handleNeighborhoodClick(neighborhoodId, {ctrlKey})
handleNeighborhoodClickOn(neighborhoodId, ctrlKey) ==
        LET currentSelected == state.seriesDimension.selected
            NotClicked(id) == id # neighborhoodId
            removed == SelectSeq(currentSelected, NotClicked)
            newSelected ==
                IF ctrlKey
                THEN IF Includes(currentSelected, neighborhoodId)
                     THEN (IF Len(removed) = 0 THEN <<"sf-aggregate">> ELSE removed)
                     ELSE Append(ValidSelections(currentSelected), neighborhoodId)
                ELSE IF currentSelected = <<neighborhoodId>> THEN <<"sf-aggregate">>
                ELSE <<neighborhoodId>>
            valid == ValidSelections(newSelected)
            selectedNeighborhood ==
                IF ctrlKey THEN (IF Len(valid) > 0 THEN IdList(valid) ELSE NoSelection)
                ELSE IF currentSelected = <<neighborhoodId>> THEN NoSelection
                ELSE OneId(neighborhoodId)
            st == [state EXCEPT !.seriesDimension = SeriesDimension("aoi", newSelected),
                                !.map.selectedNeighborhood = selectedNeighborhood]
        IN  /\ steps < MaxSteps
            /\ mapView.aoiVisible
            /\ state' = st
            /\ mapView' = [mapView EXCEPT !.selectedNeighborhood =
                                IF Len(valid) > 0 THEN IdList(valid) ELSE NoSelection]
            /\ chart' = runDataPipeline(st)
            /\ ctl' = [ctl EXCEPT !.seriesDimension = st.seriesDimension,
                                  !.aoiChecked = {id \in {AOIOrder[i] : i \in 1..Len(AOIOrder)} :
                                                    Includes(newSelected, id)}]
            /\ steps' = steps + 1
            /\ UNCHANGED <<statVars, timeVars, pickerVars, mapVars, tz, mapData, mapBlockface, saveTimer, stored>>

\* the map reports a click on a neighbourhood, with or without the Ctrl key
handleNeighborhoodClick ==
    \E neighborhoodId \in {Regions[i].id : i \in 1..Len(Regions)}, ctrlKey \in BOOLEAN :
        handleNeighborhoodClickOn(neighborhoodId, ctrlKey)

\* the segments of the tileset that are clicked: a featured one and one without time series
ClickedSegments == {"seg1", "seg9"}

\* handleBlockfaceClick(segmentId, properties)
handleBlockfaceClick ==
    \E segmentId \in ClickedSegments :
        LET blockfaceInfo == FindBlockface(BlockfaceData.blockfaces, segmentId)
            properties == CHOOSE pr \in {TilesetProperties[i] : i \in 1..Len(TilesetProperties)} :
                            Len(blockfaceInfo) = 0 => pr.segmentId = segmentId
            st == [state EXCEPT !.seriesDimension =
                        IF Len(blockfaceInfo) > 0 THEN FeaturedDimension(blockfaceInfo[1], segmentId)
                        ELSE NonFeaturedDimension(segmentId, properties)]
        IN  /\ steps < MaxSteps
            /\ mapView.blockfaceVisible
            /\ state' = st
            /\ mapView' = [mapView EXCEPT !.selectedBlockface = segmentId]
            /\ chart' = runDataPipeline(st)
            /\ ctl' = [ctl EXCEPT !.seriesDimension = st.seriesDimension]
            /\ steps' = steps + 1
            /\ UNCHANGED <<statVars, timeVars, pickerVars, mapVars, tz, mapData, mapBlockface, saveTimer, stored>>

\* the timer of handleStateChange fires: saveSettings(state)
SaveSettingsTimeout ==
    /\ saveTimer
    /\ saveTimer' = FALSE
    /\ stored' = <<Persistable(state)>>
    /\ UNCHANGED <<statVars, timeVars, pickerVars, mapVars, tz, state, chart, mapData, mapBlockface, mapView, ctl, steps>>

Next ==
    \/ handleChange
    \/ handleNeighborhoodClick
    \/ handleBlockfaceClick
    \/ SaveSettingsTimeout

Spec == Init /\ [][Next]_vars

\* C2: once a control change or a neighbourhood click has been handled, every
\* region whose own aoi series is on the chart has, as the value last sent to
\* the map, the referenceValue of that series as last sent to the chart.
C2_MapFollowsChart ==
    steps > 0 =>
        \A i \in 1..Len(chart) : \A j \in 1..Len(mapData) :
            (/\ chart[i].id \in {Regions[k].id : k \in 1..Len(Regions)}
             /\ mapData[j].id = chart[i].id)
            => mapData[j].value = chart[i].referenceValue

\* C2: a session that starts on the Day of Week tab with the weekends filter
\* stored has handled one click on a region: the chart shows the region's
\* series, and the map still holds the value of the first render
C2_ClickOnStoredDayOfWeek ==
    /\ steps = 1
    /\ stored # <<>>
    /\ state.seriesDimension.type = "aoi"
    /\ state.datePattern.type = "weekends"
    /\ Len(chart) = 1
    /\ chart[1].id = "mission"
    /\ mapData = calculateNeighborhoodOccupancy(InitialState(stored))

\* C22: whenever seriesDimension.type is 'aoi', every id of
\* seriesDimension.selected is 'sf-aggregate' or the id of a loaded region,
\* whatever tab changes, selection changes and clicks came before.
C22_AoiSelectionHoldsRegionsOnly ==
    state.seriesDimension.type = "aoi" =>
        \A i \in 1..Len(state.seriesDimension.selected) :
            state.seriesDimension.selected[i] \in {"sf-aggregate"} \cup {Regions[k].id : k \in 1..Len(Regions)}

\* a session that starts on the Day of Week tab has handled a Ctrl+click on
\* Mission: the aoi selection is the seven weekday values followed by 'mission'
C22_WeekdaysInAoiSelection ==
    /\ steps = 1
    /\ stored # <<>>
    /\ InitialState(stored).seriesDimension = SeriesDimension("dayOfWeek", DAY_OF_WEEK_OPTIONS)
    /\ state.seriesDimension = SeriesDimension("aoi", DAY_OF_WEEK_OPTIONS \o <<"mission">>)
    /\ state.map.selectedNeighborhood = IdList(DAY_OF_WEEK_OPTIONS \o <<"mission">>)
    /\ ctl.aoiChecked = {"mission"}

\* C23: right after every handleNeighborhoodClick, with or without Ctrl, the
\* dimension is 'aoi', the selection is not empty and holds 'sf-aggregate'
\* only as its sole element; a regular click on the only selected
\* neighbourhood and a Ctrl+click that removes the last selected
\* neighbourhood both leave ['sf-aggregate'].
C23_ClickLeavesRegionsOrAggregateAlone ==
    [][\A neighborhoodId \in {Regions[i].id : i \in 1..Len(Regions)}, ctrlKey \in BOOLEAN :
          handleNeighborhoodClickOn(neighborhoodId, ctrlKey) =>
              LET currentSelected == state.seriesDimension.selected
                  selected == state'.seriesDimension.selected
                  NotClicked(id) == id # neighborhoodId
              IN  /\ state'.seriesDimension.type = "aoi"
                  /\ Len(selected) > 0
                  /\ Includes(selected, "sf-aggregate") => selected = <<"sf-aggregate">>
                  /\ (~ctrlKey /\ currentSelected = <<neighborhoodId>>) => selected = <<"sf-aggregate">>
                  /\ (/\ ctrlKey
                      /\ Includes(currentSelected, neighborhoodId)
                      /\ Len(ValidSelections(SelectSeq(currentSelected, NotClicked))) = 0)
                     => selected = <<"sf-aggregate">>]_vars

\* a session restored with the aggregate, Mission and SoMa checked has handled
\* a Ctrl+click on Mission: the aggregate stays selected beside SoMa
C23_AggregateBesideSoma ==
    /\ steps = 1
    /\ stored # <<>>
    /\ stored[1].seriesDimension = SeriesDimension("aoi", <<"sf-aggregate", "mission", "soma">>)
    /\ state.seriesDimension = SeriesDimension("aoi", <<"sf-aggregate", "soma">>)
    /\ state.map.selectedNeighborhood = IdList(<<"soma">>)
    /\ mapView.selectedNeighborhood = IdList(<<"soma">>)

\* C24: every change of the persistable state is saved: once control changes
\* and clicks have been handled and no save is pending any more (the 100 ms
\* timer has fired), the stored settings are the persistable fields of the
\* current state, seriesDimension included.
C24_SavedOnceQuiet ==
    (steps > 0 /\ ~saveTimer) => stored = <<Persistable(state)>>

\* the statistic was changed and saved, then Mission was clicked on the map: no
\* save is pending, and the stored settings still hold the aggregate selection
C24_ClickNeverSaved ==
    /\ steps = 2
    /\ ~saveTimer
    /\ stored # <<>>
    /\ stored[1].statistic = "max"
    /\ state.statistic = "max"
    /\ stored[1].seriesDimension = SeriesDimension("aoi", <<"sf-aggregate">>)
    /\ state.seriesDimension = SeriesDimension("aoi", <<"mission">>)

----------------------------------------------------------------------------
(* src/lib/time-utils.js called on its own: an array of readings is given,  *)
(* and each step is one call of getBucketKey, bucketize, filterByDayOfWeek *)
(* or generateBucketRange.  A reading is its timestamp and its place in    *)
(* the array.  The functions keep no state, so a behaviour makes one call. *)

\* longest readings array
MaxReadings == 3

\* timestamps on both sides of a quarter hour, of local midnight in either time
\* zone, of a week's end and of a month's end
TimeInstants ==
    {At(0, 0, 0), At(0, 0, 14), At(0, 0, 15), At(0, 7, 59), At(0, 8, 0),
     At(6, 23, 0), At(8, 9, 0), At(31, 12, 0)}

ReadingArrays ==
    {[i \in 1..Len(ts) |-> [timestamp |-> ts[i], place |-> i]] : ts \in SeqsUpTo(TimeInstants, MaxReadings)}

\* granularity names getBucketKey has no case for
UnknownAggregations == {"yearly", ""}

\* days arguments of filterByDayOfWeek: none, some, all seven, seven with one repeated
DaysArgs ==
    {<<>>, <<1>>, <<0, 6>>, <<1, 2, 3, 4, 5>>, <<0, 1, 2, 3, 4, 5, 6>>, <<6, 5, 4, 3, 2, 1, 0>>,
     <<1, 1, 2, 3, 4, 5, 6>>, <<0, 1, 2, 3, 4, 5, 6, 0>>}

\* ranges arguments of filterByHourRange: none, the presets morning and peak,
\* one that ends before it starts (the custom hours 20 to 5), two that overlap
HourRangesArgs ==
    {<<>>, <<<<6, 11>>>>, <<<<7, 9>>, <<16, 19>>>>, <<<<20, 5>>>>, <<<<0, 8>>, <<8, 23>>>>}

ShortRanges == {[start |-> 0, end |-> 0], [start |-> 0, end |-> 1]}
LongRanges ==
    {[start |-> 0, end |-> 2], [start |-> 2, end |-> 8], [start |-> 0, end |-> 13],
     [start |-> 30, end |-> 31], [start |-> 14, end |-> 74]}

\* arguments of generateBucketRange: short ranges for the fine granularities
BucketRangeArgs ==
    ({[start |-> 0, end |-> 0]} \X {"15min"})
        \cup (ShortRanges \X {"hourly"})
        \cup ((ShortRanges \cup LongRanges) \X ({"daily", "weekly", "monthly"} \cup UnknownAggregations))

InitTime ==
    /\ StatsIdle
    /\ tz \in Offsets
    /\ state = DefaultState
    /\ chart = <<>>
    /\ mapData = <<>>
    /\ mapBlockface = <<>>
    /\ mapView = createMap(state)
    /\ ctl = createControlPanel(state)
    /\ saveTimer = FALSE
    /\ stored = <<>>
    /\ steps = 0
    /\ input \in ReadingArrays
    /\ timeCall = NoTimeCall
    /\ timeResult = NoTimeResult
    /\ PickerIdle
    /\ MapIdle

CallGetBucketKey ==
    \E i \in 1..Len(input), j \in 1..Len(input), aggregation \in getAggregationTypes \cup UnknownAggregations :
        /\ timeCall = NoTimeCall
        /\ timeCall' = [NoTimeCall EXCEPT !.fn = "getBucketKey", !.t1 = input[i].timestamp,
                                          !.t2 = input[j].timestamp, !.aggregation = aggregation]
        /\ timeResult' = [NoTimeResult EXCEPT !.keys = <<getBucketKey(input[i].timestamp, aggregation),
                                                         getBucketKey(input[j].timestamp, aggregation)>>]
        /\ UNCHANGED <<statVars, appVars, input, pickerVars, mapVars>>

CallBucketize ==
    \E aggregation \in getAggregationTypes \cup UnknownAggregations :
        /\ timeCall = NoTimeCall
        /\ timeCall' = [NoTimeCall EXCEPT !.fn = "bucketize", !.aggregation = aggregation]
        /\ timeResult' = [NoTimeResult EXCEPT !.buckets = bucketize(input, aggregation)]
        /\ UNCHANGED <<statVars, appVars, input, pickerVars, mapVars>>

CallFilterByDayOfWeek ==
    \E days \in DaysArgs :
        /\ timeCall = NoTimeCall
        /\ timeCall' = [NoTimeCall EXCEPT !.fn = "filterByDayOfWeek", !.days = days]
        /\ timeResult' = [NoTimeResult EXCEPT !.kept = filterByDayOfWeek(input, days)]
        /\ UNCHANGED <<statVars, appVars, input, pickerVars, mapVars>>

CallFilterByHourRange ==
    \E ranges \in HourRangesArgs :
        /\ timeCall = NoTimeCall
        /\ timeCall' = [NoTimeCall EXCEPT !.fn = "filterByHourRange", !.ranges = ranges]
        /\ timeResult' = [NoTimeResult EXCEPT !.kept = filterByHourRange(input, ranges)]
        /\ UNCHANGED <<statVars, appVars, input, pickerVars, mapVars>>

CallGenerateBucketRange ==
    \E args \in BucketRangeArgs :
        /\ timeCall = NoTimeCall
        /\ timeCall' = [NoTimeCall EXCEPT !.fn = "generateBucketRange", !.range = args[1], !.aggregation = args[2]]
        /\ timeResult' = [NoTimeResult EXCEPT !.keys = generateBucketRange(args[1], args[2])]
        /\ UNCHANGED <<statVars, appVars, input, pickerVars, mapVars>>

NextTime ==
    \/ CallGetBucketKey
    \/ CallBucketize
    \/ CallFilterByDayOfWeek
    \/ CallFilterByHourRange
    \/ CallGenerateBucketRange

SpecTime == InitTime /\ [][NextTime]_vars

\* C11: bucketize(readings, g) is a partition of its input: every reading is
\* in exactly one bucket, the one keyed getBucketKey(reading.timestamp, g); the
\* keys are exactly the keys of the input readings and no bucket is empty; the
\* buckets come in the order their keys first appear in the input; the readings
\* of a bucket keep their input order.
C11_BucketizeIsPartition ==
    timeCall.fn = "bucketize" =>
        LET b == timeResult.buckets
            g == timeCall.aggregation
            Holds(k, i) == \E m \in 1..Len(b[k].readings) : b[k].readings[m] = input[i]
        IN  /\ \A i \in 1..Len(input) :
                /\ Cardinality({k \in 1..Len(b) : Holds(k, i)}) = 1
                /\ \A k \in 1..Len(b) : Holds(k, i) <=> b[k].key = getBucketKey(input[i].timestamp, g)
            /\ \A k \in 1..Len(b) :
                /\ Len(b[k].readings) > 0
                /\ \A m \in 1..Len(b[k].readings) : \E i \in 1..Len(input) : b[k].readings[m] = input[i]
                /\ \A m, n \in 1..Len(b[k].readings) :
                        m < n => b[k].readings[m].place < b[k].readings[n].place
            /\ \A k, l \in 1..Len(b) :
                k < l => /\ b[k].key # b[l].key
                         /\ b[k].readings[1].place < b[l].readings[1].place

\* C11: three readings whose 15-minute keys are first, second, first: two
\* buckets, the first holding the readings at places 1 and 3
C11_FirstSecondFirst ==
    /\ timeCall.fn = "bucketize"
    /\ timeCall.aggregation = "15min"
    /\ Len(input) = 3
    /\ Len(timeResult.buckets) = 2
    /\ timeResult.buckets[1].readings = <<input[1], input[3]>>
    /\ timeResult.buckets[2].readings = <<input[2]>>

\* C12: generateBucketRange(range, g) returns, without duplicates and in
\* chronological order, exactly the keys getBucketKey(t, g) of the instants t
\* from range.start to the end of the day of range.end; so the key of every
\* reading that passes isInRange(range) is in the returned list.  The keys of
\* the instants are taken on a grid no coarser than the windows of g (every 15
\* minutes, every hour, else every day from range.start) and at the last minute.
C12_RangeEnumeratesEveryKey ==
    timeCall.fn = "generateBucketRange" =>
        LET r == timeCall.range
            g == timeCall.aggregation
            keys == timeResult.keys
            lo == DateOnly(r.start)
            hi == EndOfLocalDay(DateOnly(r.end))
            grid == CASE g = "15min" -> 15 [] g = "hourly" -> 60 [] OTHER -> MinutesPerDay
            between == {lo + k * grid : k \in 0..((hi - 1 - lo) \div grid)} \cup {hi - 1}
        IN  /\ \A k \in 1..(Len(keys) - 1) : KeyLt(keys[k], keys[k + 1])
            /\ {keys[k] : k \in 1..Len(keys)} = {getBucketKey(t, g) : t \in between}
            /\ \A i \in 1..Len(input) :
                    isInRange(input[i].timestamp, r) => Includes(keys, getBucketKey(input[i].timestamp, g))

\* C12: the weeks of 2024-01-03 .. 2024-01-09 are asked for and a reading of
\* 2024-01-09 09:00, in range, has the week of Monday 2024-01-08 as its key;
\* the returned list holds the week of 2024-01-01 alone
C12_WeekOfLastDayMissing ==
    /\ timeCall.fn = "generateBucketRange"
    /\ timeCall.aggregation = "weekly"
    /\ timeCall.range = [start |-> 2, end |-> 8]
    /\ timeResult.keys = <<<<2024, 1, 1>>>>
    /\ \E i \in 1..Len(input) :
        /\ input[i].timestamp = At(8, 9, 0)
        /\ isInRange(input[i].timestamp, timeCall.range)
        /\ getBucketKey(input[i].timestamp, "weekly") = <<2024, 1, 8>>

----------------------------------------------------------------------------
(* src/ui/date-range-picker.js: the date range picker on its own.  A date    *)
(* string 'YYYY-MM-DD' is a day number; a Date is an instant.  The Dates of  *)
(* the state object are never shared with viewMonth, the only Date that is   *)
(* mutated: createDateRangePicker parses the start string once for each      *)
(* field, and openFlyout and setValue copy confirmedStart into viewMonth.    *)

\* the number of events the picker receives
MaxPickerEvents == 6

\* new Date(year, month - 1, day): midnight of the day on the local clock
parseLocalDate(dateStr) == IF dateStr = NoDate THEN NoDate ELSE dateStr * MinutesPerDay - tz

\* the local calendar date of a Date
formatDate(date) == LocalDayNo(date)

\* date.setMonth(date.getMonth() + delta), the day of the month overflowing
\* into the month after a shorter month
setMonth(date, delta) ==
    LET day == LocalDayNo(date)
        ymd == YMD(day)
    IN  date + (MonthStart[ymd[2] + delta] + ymd[3] - 1 - day) * MinutesPerDay

\* the options createControlPanel creates the picker with
PickerOptions ==
    {[minDate |-> 0, maxDate |-> 59, startDate |-> range.start, endDate |-> range.end] : range \in TimeRanges}

\* the picker after createDateRangePicker(container, options)
createDateRangePicker(options) ==
    [isOpen |-> FALSE, selecting |-> "start",
     tempStart |-> parseLocalDate(options.startDate), tempEnd |-> parseLocalDate(options.endDate),
     viewMonth |-> parseLocalDate(options.startDate),
     confirmedStart |-> parseLocalDate(options.startDate), confirmedEnd |-> parseLocalDate(options.endDate),
     doneDisabled |-> TRUE,
     minDateObj |-> parseLocalDate(options.minDate), maxDateObj |-> parseLocalDate(options.maxDate)]

\* the days of the calendars whose cells are clicked; the last one is after
\* maxDate
PickedDays == {2, 9, 35, 70}

\* the ranges of the preset buttons 1W, 1M and 3M: the last days of the
\* available range, clamped to its start
PresetRanges == {[start |-> 53, end |-> 59], [start |-> 30, end |-> 59], [start |-> 0, end |-> 59]}

updateActionButtons(p) == [p EXCEPT !.doneDisabled = ~(p.tempStart # NoDate /\ p.tempEnd # NoDate)]

openFlyout(p) ==
    updateActionButtons([p EXCEPT !.isOpen = TRUE, !.selecting = "start",
                                  !.tempStart = p.confirmedStart, !.tempEnd = p.confirmedEnd,
                                  !.viewMonth = IF p.confirmedStart # NoDate THEN p.confirmedStart ELSE @])

\* a Cancel that applies the selection before closing
handleCancelClickApplying(p) ==
    [p EXCEPT !.confirmedStart = p.tempStart, !.confirmedEnd = p.tempEnd, !.selecting = "start", !.isOpen = FALSE]

handleCancelClick(p) ==
    [p EXCEPT !.tempStart = p.confirmedStart, !.tempEnd = p.confirmedEnd, !.selecting = "start", !.isOpen = FALSE]

toggleFlyout(p) == IF p.isOpen THEN handleCancelClick(p) ELSE openFlyout(p)

navigateMonth(p, delta) == [p EXCEPT !.viewMonth = setMonth(@, delta)]

\* a day click that takes the second date as the end wherever it lies
handleDayClickKeepingOrder(p, dateStr) ==
    LET clickedDate == parseLocalDate(dateStr)
    IN  updateActionButtons(
            IF p.selecting = "start"
            THEN [p EXCEPT !.tempStart = clickedDate, !.tempEnd = NoDate, !.selecting = "end"]
            ELSE [p EXCEPT !.tempEnd = clickedDate])

handleDayClick(p, dateStr) ==
    LET clickedDate == parseLocalDate(dateStr)
    IN  updateActionButtons(
            IF p.selecting = "start"
            THEN [p EXCEPT !.tempStart = clickedDate, !.tempEnd = NoDate, !.selecting = "end"]
            ELSE IF clickedDate < p.tempStart
            THEN [p EXCEPT !.tempEnd = p.tempStart, !.tempStart = clickedDate]
            ELSE [p EXCEPT !.tempEnd = clickedDate])

\* handleDoneClick(): the picker it leaves and the calls of onChange it makes
handleDoneClick(p) ==
    IF p.tempStart = NoDate \/ p.tempEnd = NoDate THEN [picker |-> p, calls |-> <<>>]
    ELSE [picker |-> [p EXCEPT !.confirmedStart = p.tempStart, !.confirmedEnd = p.tempEnd, !.isOpen = FALSE],
          calls |-> <<[start |-> formatDate(p.tempStart), end |-> formatDate(p.tempEnd)]>>]

setValue(p, start, end) ==
    [p EXCEPT !.confirmedStart = parseLocalDate(start), !.confirmedEnd = parseLocalDate(end),
              !.tempStart = parseLocalDate(start), !.tempEnd = parseLocalDate(end),
              !.viewMonth = IF parseLocalDate(start) # NoDate THEN parseLocalDate(start) ELSE @]

\* the months of the two calendars: viewMonth and a copy of it a month later
CalendarMonths(p) == {YMD(LocalDayNo(p.viewMonth))[2], YMD(LocalDayNo(setMonth(p.viewMonth, 1)))[2]}

\* the cells that have a click listener: the days of the two calendars that
\* are not outside minDate .. maxDate
EnabledDays(p) ==
    {d \in PickedDays : /\ YMD(d)[2] \in CalendarMonths(p)
                        /\ parseLocalDate(d) >= p.minDateObj
                        /\ parseLocalDate(d) <= p.maxDateObj}

InitPicker ==
    /\ StatsIdle
    /\ TimeIdle
    /\ tz \in Offsets
    /\ state = DefaultState
    /\ chart = <<>>
    /\ mapData = <<>>
    /\ mapBlockface = <<>>
    /\ mapView = createMap(state)
    /\ ctl = createControlPanel(state)
    /\ saveTimer = FALSE
    /\ stored = <<>>
    /\ steps = 0
    /\ \E options \in PickerOptions : picker = createDateRangePicker(options)
    /\ notified = <<>>
    /\ pickerEvent = "create"
    /\ MapIdle

\* what every listener of the picker leaves alone
PickerEvent(name) ==
    /\ steps < MaxPickerEvents
    /\ steps' = steps + 1
    /\ pickerEvent' = name
    /\ UNCHANGED <<statVars, timeVars, mapVars, tz, state, chart, mapData, mapBlockface, mapView, ctl, saveTimer, stored>>

TriggerClick ==
    /\ PickerEvent("trigger")
    /\ picker' = toggleFlyout(picker)
    /\ UNCHANGED notified

\* the navigation stays within the months January .. November 2024
PrevClick ==
    /\ picker.isOpen
    /\ YMD(LocalDayNo(picker.viewMonth))[2] > 1
    /\ PickerEvent("prev")
    /\ picker' = navigateMonth(picker, -1)
    /\ UNCHANGED notified

NextClick ==
    /\ picker.isOpen
    /\ YMD(LocalDayNo(setMonth(picker.viewMonth, 1)))[2] < 11
    /\ PickerEvent("next")
    /\ picker' = navigateMonth(picker, 1)
    /\ UNCHANGED notified

DayClick ==
    \E d \in EnabledDays(picker) :
        /\ picker.isOpen
        /\ PickerEvent("day")
        /\ picker' = handleDayClick(picker, d)
        /\ UNCHANGED notified

\* a disabled button receives no click
DoneClick ==
    /\ picker.isOpen
    /\ ~picker.doneDisabled
    /\ PickerEvent("done")
    /\ picker' = handleDoneClick(picker).picker
    /\ notified' = notified \o handleDoneClick(picker).calls

CancelClick ==
    /\ picker.isOpen
    /\ PickerEvent("cancel")
    /\ picker' = handleCancelClick(picker)
    /\ UNCHANGED notified

\* a click on the document outside the picker's container
OutsideClick ==
    /\ PickerEvent("outside")
    /\ picker' = IF picker.isOpen THEN handleCancelClick(picker) ELSE picker
    /\ UNCHANGED notified

EscapeKey ==
    /\ PickerEvent("escape")
    /\ picker' = IF picker.isOpen THEN handleCancelClick(picker) ELSE picker
    /\ UNCHANGED notified

\* a preset button or updateControlsUI sets the range
SetValue ==
    \E range \in PresetRanges :
        /\ PickerEvent("setValue")
        /\ picker' = setValue(picker, range.start, range.end)
        /\ UNCHANGED notified

NextPicker ==
    \/ TriggerClick
    \/ PrevClick
    \/ NextClick
    \/ DayClick
    \/ DoneClick
    \/ CancelClick
    \/ OutsideClick
    \/ EscapeKey
    \/ SetValue

SpecPicker == InitPicker /\ [][NextPicker]_vars

\* C20: the picker applies a selection only on confirmation: onChange is
\* called only by a click on Done while a start and an end date are chosen,
\* with that range, and the confirmed range changes only by such a click or
\* by setValue; a day click, the month navigation, Cancel, Escape, a click
\* outside and the trigger (closing or reopening the flyout) call no onChange
\* and leave the confirmed range as it is.
C20_AppliedOnlyOnDone ==
    [][LET Confirmed(p) == <<p.confirmedStart, p.confirmedEnd>>
           chosen == picker.tempStart # NoDate /\ picker.tempEnd # NoDate
       IN  /\ notified' # notified =>
                /\ pickerEvent' = "done"
                /\ chosen
                /\ notified' = Append(notified, [start |-> LocalDayNo(picker.tempStart),
                                                 end |-> LocalDayNo(picker.tempEnd)])
                /\ Confirmed(picker') = <<picker.tempStart, picker.tempEnd>>
           /\ Confirmed(picker') # Confirmed(picker) =>
                \/ pickerEvent' = "done" /\ chosen
                \/ pickerEvent' = "setValue"
           /\ pickerEvent' \in {"day", "prev", "next", "cancel", "escape", "outside", "trigger"} =>
                /\ notified' = notified
                /\ Confirmed(picker') = Confirmed(picker)]_vars

\* C20: the flyout was opened, two days were clicked and Done was clicked:
\* onChange was called once, with 2024-01-03 .. 2024-01-10, the confirmed
\* range, and the flyout is closed
C20_RangeAppliedByDone ==
    /\ pickerEvent = "done"
    /\ notified = <<[start |-> 2, end |-> 9]>>
    /\ formatDate(picker.confirmedStart) = 2
    /\ formatDate(picker.confirmedEnd) = 9
    /\ ~picker.isOpen

\* C28: whenever the picker holds both a temporary start and a temporary end,
\* the start is not after the end, whatever days are clicked (a day before the
\* current start, further clicks after an end was chosen), through month
\* navigation, cancel and reopening; every range onChange was called with has
\* start <= end.  The initial range and the ranges of setValue are in order.
C28_TemporaryRangeInOrder ==
    /\ (picker # NoPicker /\ picker.tempStart # NoDate /\ picker.tempEnd # NoDate) =>
            picker.tempStart <= picker.tempEnd
    /\ \A i \in 1..Len(notified) : notified[i].start <= notified[i].end

\* C28: after the flyout was opened three days were clicked, the last of them
\* 2024-01-03, before the start chosen by the first click: the temporary
\* range is 2024-01-03 .. 2024-01-10 and the picker still selects the end
C28_EarlierDayBecomesStart ==
    /\ pickerEvent = "day"
    /\ steps = 4
    /\ picker.isOpen
    /\ picker.selecting = "end"
    /\ formatDate(picker.confirmedStart) = 0
    /\ formatDate(picker.tempStart) = 2
    /\ formatDate(picker.tempEnd) = 9


----------------------------------------------------------------------------
(* The core called on arguments its caller keeps: an array of numbers, an  *)
(* array of readings and the application state.  The reducers and the      *)
(* filters may be called in any order and any number of times; the         *)
(* pipeline and the map computation run once.                              *)

\* arrays of numbers: none, empty, unsorted of even and odd length
FrameArrays == {Null, <<>>, <<Num(2), Num(-1)>>, <<Num(5), Num(0), Num(2)>>}

FrameReadings ==
    {r \in ReadingArrays : Len(r) = MaxReadings /\ r[1].timestamp = At(8, 9, 0) /\ r[2].timestamp = At(0, 0, 14)
                               /\ r[3].timestamp \in {At(0, 0, 14), At(6, 23, 0)}}

FrameSnapshots ==
    { DefaultState,
      [DefaultState EXCEPT !.statistic = "median", !.aggregation = "weekly", !.datePattern = DATE_PATTERNS.weekends,
                           !.seriesDimension = SeriesDimension("aoi", <<"mission", "soma">>)] }

InitFrame ==
    /\ values \in FrameArrays
    /\ call = NoCall
    /\ result = Ret(Zero)
    /\ tz \in Offsets
    /\ state \in FrameSnapshots
    /\ chart = <<>>
    /\ mapData = <<>>
    /\ mapBlockface = <<>>
    /\ mapView = createMap(state)
    /\ ctl = createControlPanel(state)
    /\ saveTimer = FALSE
    /\ stored = <<>>
    /\ steps = 0
    /\ input \in FrameReadings
    /\ timeCall = NoTimeCall
    /\ timeResult = NoTimeResult
    /\ PickerIdle
    /\ MapIdle

NextFrame ==
    \/ CallPercentile
    \/ CallCalculate
    \/ CallBucketize
    \/ CallFilterByDayOfWeek
    \/ CallFilterByHourRange
    \/ Render

SpecFrame == InitFrame /\ [][NextFrame]_vars

\* C21: no call of the core changes what it was given: the reducers leave the
\* content and the order of their array as they were, filterByDayOfWeek,
\* filterByHourRange and bucketize leave the readings array and every reading
\* in it as they were, and a run of the pipeline and of the map computation
\* leaves the application state as it was.
C21_ArgumentsKeptAsGiven ==
    [][/\ values' = values
       /\ input' = input
       /\ state' = state]_vars

\* the median of an unsorted array was taken, the readings were bucketized and
\* the pipeline ran under the median statistic; the array is still unsorted
C21_UnsortedAfterMedian ==
    /\ call = [fn |-> "calculate", p |-> 0, type |-> "median"]
    /\ result = Ret(Num(2))
    /\ values = <<Num(5), Num(0), Num(2)>>
    /\ timeCall.fn = "bucketize"
    /\ Len(input) = MaxReadings
    /\ input[1].timestamp = At(8, 9, 0)
    /\ state.statistic = "median"
    /\ chart # <<>>


----------------------------------------------------------------------------
(* src/ui/map.js: the map on its own.  createMap returns the interface at  *)
(* once; the Mapbox map fires 'load' later, and the load handler waits for *)
(* the GeoJSON before it adds the layers.  The caller may use the          *)
(* interface at any moment.  A null is <<>> and an array a is <<a>>.       *)

\* number of calls of the map interface
MaxMapCalls == 3

\* the config main.js passes: the layer settings of the (restored) state
MapConfigs == [initialAoiVisible : BOOLEAN, initialBlockfaceVisible : BOOLEAN]

\* arrays handed to setNeighborhoodData: none, one region, two regions
NeighborhoodDataChoices ==
    { <<>>,
      << [id |-> "mission", name |-> "Mission", value |-> Num(50)] >>,
      << [id |-> "mission", name |-> "Mission", value |-> Num(90)],
         [id |-> "soma", name |-> "SoMa", value |-> Num(25)] >> }

\* createMap(container, config): the closure's variables before 'load'
createMapClosure(config) ==
    [phase |-> "created", isLoaded |-> FALSE,
     aoiLayerVisible |-> config.initialAoiVisible,
     blockfaceLayerVisible |-> config.initialBlockfaceVisible,
     pendingData |-> <<>>, aoiVisibility |-> "absent", blockfaceVisibility |-> "absent", fillColor |-> <<>>]

\* visible ? 'visible' : 'none'
Visibility(visible) == IF visible THEN "visible" ELSE "none"

\* the load handler from isLoaded = true on: the layers exist; the initial
\* visibility is applied, then the pending data
loadHandlerTail(m) ==
    [m EXCEPT !.phase = "loaded",
              !.isLoaded = TRUE,
              !.aoiVisibility = Visibility(m.aoiLayerVisible),
              !.blockfaceVisibility = Visibility(m.blockfaceLayerVisible),
              !.fillColor = IF m.pendingData # <<>> THEN m.pendingData ELSE m.fillColor,
              !.pendingData = <<>>]

\* setLayerVisibility(layer, visible)
setLayerVisibility(m, layer, visible) ==
    IF ~m.isLoaded THEN m
    ELSE IF layer = "aoi"
    THEN [m EXCEPT !.aoiLayerVisible = visible, !.aoiVisibility = Visibility(visible)]
    ELSE [m EXCEPT !.blockfaceLayerVisible = visible, !.blockfaceVisibility = Visibility(visible)]

\* setNeighborhoodData(data): kept for the load handler, or painted at once
setNeighborhoodData(m, data) ==
    IF ~m.isLoaded THEN [m EXCEPT !.pendingData = <<data>>]
    ELSE [m EXCEPT !.fillColor = <<data>>]

InitMap ==
    /\ StatsIdle
    /\ TimeIdle
    /\ PickerIdle
    /\ AppIdle
    /\ \E config \in MapConfigs :
          /\ mapgl = createMapClosure(config)
          /\ mapCalls = [aoi |-> config.initialAoiVisible, blockface |-> config.initialBlockfaceVisible,
                         data |-> <<>>]

\* what the steps of the map leave alone
MapFrame == UNCHANGED <<statVars, timeVars, pickerVars, tz, state, chart, mapData, mapBlockface, mapView, ctl, saveTimer, stored>>

\* the Mapbox map fires 'load': the handler starts and waits for fetch(geojsonUrl)
MapLoadEvent ==
    /\ mapgl.phase = "created"
    /\ mapgl' = [mapgl EXCEPT !.phase = "fetching"]
    /\ UNCHANGED <<mapCalls, steps>>
    /\ MapFrame

\* the GeoJSON arrives and the handler runs to its end
GeoJsonLoaded ==
    /\ mapgl.phase = "fetching"
    /\ mapgl' = loadHandlerTail(mapgl)
    /\ UNCHANGED <<mapCalls, steps>>
    /\ MapFrame

\* the fetch fails or the response is not ok: the handler ends in its catch
GeoJsonFailed ==
    /\ mapgl.phase = "fetching"
    /\ mapgl' = [mapgl EXCEPT !.phase = "failed"]
    /\ UNCHANGED <<mapCalls, steps>>
    /\ MapFrame

CallSetLayerVisibility ==
    \E layer \in {"aoi", "blockface"}, visible \in BOOLEAN :
        /\ steps < MaxMapCalls
        /\ steps' = steps + 1
        /\ mapgl' = setLayerVisibility(mapgl, layer, visible)
        /\ mapCalls' = [mapCalls EXCEPT ![layer] = visible]
        /\ MapFrame

CallSetNeighborhoodData ==
    \E data \in NeighborhoodDataChoices :
        /\ steps < MaxMapCalls
        /\ steps' = steps + 1
        /\ mapgl' = setNeighborhoodData(mapgl, data)
        /\ mapCalls' = [mapCalls EXCEPT !.data = <<data>>]
        /\ MapFrame

NextMap ==
    \/ MapLoadEvent
    \/ GeoJsonLoaded
    \/ GeoJsonFailed
    \/ CallSetLayerVisibility
    \/ CallSetNeighborhoodData

SpecMap == InitMap /\ [][NextMap]_vars

\* C25: however the calls of the interface interleave with the load, once the
\* load handler has completed each layer shows or hides as the latest
\* setLayerVisibility call for it said (as the config said, if there was no
\* call), and the neighbourhood data painted is the data of the latest
\* setNeighborhoodData call.
C25_LoadedMapShowsLatestCalls ==
    mapgl.phase = "loaded" =>
        /\ mapgl.aoiVisibility = Visibility(mapCalls.aoi)
        /\ mapgl.blockfaceVisibility = Visibility(mapCalls.blockface)
        /\ mapCalls.data # <<>> => mapgl.fillColor = mapCalls.data

\* the map was created with the aoi layer visible; before the load the caller
\* passed data and hid the aoi layer; the load has completed, the data is
\* painted and the aoi layer is visible
C25_HiddenBeforeLoadIsVisible ==
    /\ mapgl.phase = "loaded"
    /\ steps = 2
    /\ mapCalls.aoi = FALSE
    /\ mapgl.aoiVisibility = "visible"
    /\ mapgl.aoiLayerVisible
    /\ mapCalls.data # <<>>
    /\ Len(mapCalls.data[1]) = 2
    /\ mapgl.fillColor = mapCalls.data

====
